---- MODULE Spec2Model ----
(***************************************************************************)
(* A model of mongoish: MongoishClient (src/unnamed/part_000), Database    *)
(* (src/unnamed/part_002) and Collection (src/unnamed/part_001).           *)
(*                                                                         *)
(* JavaScript runs one synchronous segment at a time.  Every action below   *)
(* is one such segment: a call made by the application up to its first      *)
(* await (or its return), or the continuation of an async method after an   *)
(* await.  Continuations of awaited promises are microtasks and run         *)
(* first-in first-out; callbacks given to setImmediate() run first-in       *)
(* first-out, each only when no microtask is left.  The application may     *)
(* make a call between any two segments.                                    *)
(***************************************************************************)
EXTENDS Integers, Sequences, FiniteSets, TLC

VARIABLES
    _Engine,        \* client -> the class held by MongoishClient._Engine
    _isConnected,   \* client -> MongoishClient._isConnected
    promises,       \* slot -> a connect() or close() call and its promise
    immediates,     \* the setImmediate() queue: slots of promises
    dbs,            \* the Database instances, in order of construction
    colls,          \* the Collection instances, in order of construction
    calls,          \* slot -> an insertOne()/insertMany() call and its promise
    microtasks,     \* the microtask queue: slots of calls awaiting the engine
    ret,            \* what the last synchronous call returned or threw
    returned        \* history: per Database, what collection() has returned
                    \* for each name since the last dropDatabase()

vars == <<_Engine, _isConnected, promises, immediates, dbs, colls, calls,
          microtasks, ret, returned>>

(***************************************************************************)
(* Bounds of the model.                                                    *)
(***************************************************************************)
MaxDbs == 2         \* Database instances constructed in one behaviour
MaxColls == 3       \* Collection instances constructed in one behaviour
MaxStore == 2       \* documents held by one engine instance
MaxBatch == 2       \* length of the array given to insertMany()
MaxScanBatch == 3   \* the same, where only the scan for duplicates runs
MaxClients == 2     \* MongoishClient instances constructed in one behaviour

(***************************************************************************)
(* Values.                                                                 *)
(***************************************************************************)
\* A JavaScript string is a sequence of characters.
LowerCase == {"a", "b", "c", "d", "e", "f", "g", "h", "i", "j", "k", "l", "m",
              "n", "o", "p", "q", "r", "s", "t", "u", "v", "w", "x", "y", "z"}
Digits == {"0", "1", "2", "3", "4", "5", "6", "7", "8", "9"}

\* An argument: a string, or something that is not a string (null).
Str(chars) == [type |-> "string", s |-> chars]
Null == [type |-> "null", s |-> <<>>]

\* An Error: the method it begins with, its text, and what the text names.
Err(begin, msg, name, id, i, j) ==
    [begin |-> begin, msg |-> msg, name |-> name, id |-> id, i |-> i, j |-> j]
NoError == Err("", "", <<>>, "", -1, -1)
Error(begin, msg) == Err(begin, msg, <<>>, "", -1, -1)

MsgNotConnected == "Client must be connected before running operations"
MsgNoEngine == "A real database engine must be injected, using injectEngine()"
MsgAlreadyInjected == "A database engine has already be injected, injectEngine() can only be called once per client"
MsgInvalid == "invalid argument"
MsgNotAFunction == "is not a function"
MsgConstructorThrew == "thrown by the constructor of the engine"

(***************************************************************************)
(* Engines: what can be passed to injectEngine().  fn says whether the      *)
(* value is a function, NAME and VERSION are its static properties ("" when *)
(* missing or empty), methods whether its instances have find(),            *)
(* insertOne(), insertMany() and count().                                   *)
(***************************************************************************)
Engine(fn, name, version, methods) ==
    [fn |-> fn, NAME |-> name, VERSION |-> version, methods |-> methods,
     throws |-> FALSE]
NoopEngine == Engine(TRUE, "", "", FALSE)
PicoDB == Engine(TRUE, "picodb", "1.0.5", TRUE)
MockEngine == Engine(TRUE, "MockEngine", "1", FALSE)
SecondEngine == Engine(TRUE, "two", "2.2", TRUE)
NotAnEngine == Engine(FALSE, "", "", FALSE)
\* A class whose constructor throws (throws is TRUE).
ThrowingEngine == [Engine(TRUE, "Thrower", "1", FALSE) EXCEPT !.throws = TRUE]
NamelessEngine == Engine(TRUE, "", "1", FALSE)
VersionlessEngine == Engine(TRUE, "ok", "", FALSE)

\* A test that only finds _Engine unset: !this._Engine
NoRealEngineUnset(E) == ~E.fn

\* !this._Engine || !this._Engine.NAME || !this._Engine.VERSION
NoRealEngine(E) == ~E.fn \/ E.NAME = "" \/ E.VERSION = ""

\* An injectEngine() that never finds an engine injected.
AlreadyInjectedNever(E) == FALSE

\* this._Engine && (this._Engine.NAME || this._Engine.VERSION)
AlreadyInjected(E) == E.fn /\ (E.NAME # "" \/ E.VERSION # "")

\* A validation that does not look at VERSION.
ValidEngineNamed(E) == E.fn /\ E.NAME # ""

\* A validation that also asks for instances with find(), insertOne(),
\* insertMany() and count().
ValidEngineWithMethods(E) == E.fn /\ E.NAME # "" /\ E.VERSION # "" /\ E.methods

\* aintaFunction(Engine, 'Engine', { schema: { NAME: { min:1, types:['string'] },
\* VERSION: { min:1, types:['string'] } } }) finds nothing to report.
ValidEngine(E) == E.fn /\ E.NAME # "" /\ E.VERSION # ""

(***************************************************************************)
(* Names of databases and collections.                                     *)
(***************************************************************************)
\* /^[a-z][_a-z0-9]*$/
MatchesNameRx(s) ==
    /\ Len(s) >= 1
    /\ s[1] \in LowerCase
    /\ \A i \in 2..Len(s) : s[i] \in LowerCase \cup Digits \cup {"_"}

MinNameLen == 1
MaxNameLen == 64

\* aintaString(name, ..., { begin, min:1, max:64, rx:/^[a-z][_a-z0-9]*$/ })
\* finds nothing to report.
ValidName(arg) ==
    /\ arg.type = "string"
    /\ Len(arg.s) >= MinNameLen
    /\ Len(arg.s) <= MaxNameLen
    /\ MatchesNameRx(arg.s)

Name_db_1 == <<"d", "b", "_", "1">>
Name_coll_1 == <<"c", "o", "l", "l", "_", "1">>
Name_coll_2 == <<"c", "o", "l", "l", "_", "2">>
Name_constructor == <<"c", "o", "n", "s", "t", "r", "u", "c", "t", "o", "r">>

(***************************************************************************)
(* Promises of connect() and close().                                      *)
(***************************************************************************)
\* A call of connect() or close() on a client, made while its _isConnected
\* was connected, and how its promise settled.
Promise(fn, client, connected, status, err) ==
    [fn |-> fn, client |-> client, connected |-> connected, status |-> status,
     err |-> err]
NoPromise == Promise("", 0, FALSE, "none", NoError)

\* The slot a new call takes: the first that holds no pending call.
FreeSlots(f) == {p \in DOMAIN f : f[p].status # "pending"}
FreeSlot(f) == CHOOSE p \in FreeSlots(f) : \A q \in FreeSlots(f) : p <= q

\* What the last synchronous call was (op, on the client, Database or
\* Collection numbered on, with argument arg, made while the client's
\* _isConnected was connected), and what it returned (kind, val, names) or
\* threw (err); docs are the documents a drained cursor yielded.
Ret(op, on, arg, connected, err, kind, val, names) ==
    [op |-> op, on |-> on, arg |-> arg, connected |-> connected, err |-> err,
     kind |-> kind, val |-> val, names |-> names, docs |-> <<>>]
NoRet == Ret("", 0, Null, FALSE, NoError, "", 0, <<>>)
Threw(op, on, arg, connected, err) ==
    Ret(op, on, arg, connected, err, "", 0, <<>>)
Returned(op, on, arg, connected, kind, val) ==
    Ret(op, on, arg, connected, NoError, kind, val, <<>>)

Clients == DOMAIN _Engine

(***************************************************************************)
(* MongoishClient                                                          *)
(***************************************************************************)
\* A connect() that takes the client for disconnected until it has resolved.
connectResets(c) ==
    /\ FreeSlots(promises) # {}
    /\ LET p == FreeSlot(promises) IN
        IF NoRealEngine(_Engine[c])
        THEN /\ promises' = [promises EXCEPT ![p] =
                    Promise("connect", c, _isConnected[c], "rejected",
                            Error("connect()", MsgNoEngine))]
             /\ UNCHANGED <<immediates, _isConnected>>
        ELSE /\ _isConnected' = [_isConnected EXCEPT ![c] = FALSE]
             /\ promises' = [promises EXCEPT ![p] =
                    Promise("connect", c, _isConnected[c], "pending", NoError)]
             /\ immediates' = Append(immediates, p)
    /\ UNCHANGED <<_Engine, dbs, colls, calls, microtasks, ret, returned>>

\* A connect() without the test for an engine.
connectUnchecked(c) ==
    /\ FreeSlots(promises) # {}
    /\ LET p == FreeSlot(promises) IN
        /\ promises' = [promises EXCEPT ![p] =
                Promise("connect", c, _isConnected[c], "pending", NoError)]
        /\ immediates' = Append(immediates, p)
    /\ UNCHANGED <<_Engine, _isConnected, dbs, colls, calls, microtasks, ret,
                   returned>>

\* async connect(): the segment up to the await.
connect(c) ==
    /\ FreeSlots(promises) # {}
    /\ LET p == FreeSlot(promises) IN
        IF NoRealEngine(_Engine[c])
        THEN /\ promises' = [promises EXCEPT ![p] =
                    Promise("connect", c, _isConnected[c], "rejected",
                            Error("connect()", MsgNoEngine))]
             /\ UNCHANGED immediates
        ELSE /\ promises' = [promises EXCEPT ![p] =
                    Promise("connect", c, _isConnected[c], "pending", NoError)]
             /\ immediates' = Append(immediates, p)
    /\ UNCHANGED <<_Engine, _isConnected, dbs, colls, calls, microtasks, ret,
                   returned>>

\* A close() that leaves _isConnected to its continuation.
closeKeepsConnected(c) ==
    /\ FreeSlots(promises) # {}
    /\ LET p == FreeSlot(promises) IN
        IF NoRealEngine(_Engine[c])
        THEN /\ promises' = [promises EXCEPT ![p] =
                    Promise("close", c, _isConnected[c], "rejected",
                            Error("close()", MsgNoEngine))]
             /\ UNCHANGED <<immediates, _isConnected>>
        ELSE /\ promises' = [promises EXCEPT ![p] =
                    Promise("close", c, _isConnected[c], "pending", NoError)]
             /\ immediates' = Append(immediates, p)
             /\ UNCHANGED _isConnected
    /\ UNCHANGED <<_Engine, dbs, colls, calls, microtasks, ret, returned>>

\* A close() that empties the engines of the client's Collections.
closeClears(c) ==
    /\ FreeSlots(promises) # {}
    /\ LET p == FreeSlot(promises) IN
        IF NoRealEngine(_Engine[c])
        THEN /\ promises' = [promises EXCEPT ![p] =
                    Promise("close", c, _isConnected[c], "rejected",
                            Error("close()", MsgNoEngine))]
             /\ UNCHANGED <<immediates, _isConnected, colls>>
        ELSE /\ _isConnected' = [_isConnected EXCEPT ![c] = FALSE]
             /\ promises' = [promises EXCEPT ![p] =
                    Promise("close", c, _isConnected[c], "pending", NoError)]
             /\ immediates' = Append(immediates, p)
             /\ colls' = [k \in DOMAIN colls |->
                            IF colls[k]._client = c
                            THEN [colls[k] EXCEPT !._engine.docs = <<>>]
                            ELSE colls[k]]
    /\ UNCHANGED <<_Engine, dbs, calls, microtasks, ret, returned>>

\* async close(): the segment up to the await.
close(c) ==
    /\ FreeSlots(promises) # {}
    /\ LET p == FreeSlot(promises) IN
        IF NoRealEngine(_Engine[c])
        THEN /\ promises' = [promises EXCEPT ![p] =
                    Promise("close", c, _isConnected[c], "rejected",
                            Error("close()", MsgNoEngine))]
             /\ UNCHANGED <<immediates, _isConnected>>
        ELSE /\ _isConnected' = [_isConnected EXCEPT ![c] = FALSE]
             /\ promises' = [promises EXCEPT ![p] =
                    Promise("close", c, _isConnected[c], "pending", NoError)]
             /\ immediates' = Append(immediates, p)
    /\ UNCHANGED <<_Engine, dbs, colls, calls, microtasks, ret, returned>>

\* A connect() that resolves without setting _isConnected.
connectResumedUnset(p) ==
    /\ promises' = [promises EXCEPT ![p].status = "resolved"]
    /\ UNCHANGED _isConnected

\* What connect() does after its await.
connectResumed(p) ==
    /\ _isConnected' = [_isConnected EXCEPT ![promises[p].client] = TRUE]
    /\ promises' = [promises EXCEPT ![p].status = "resolved"]

\* What close() does after its await.
closeResumed(p) ==
    /\ promises' = [promises EXCEPT ![p].status = "resolved"]
    /\ UNCHANGED _isConnected

\* The oldest setImmediate() callback runs, once no microtask is left; it
\* resolves the awaited promise, and the method that awaits it continues.
Tick ==
    /\ microtasks = <<>>
    /\ immediates # <<>>
    /\ LET p == Head(immediates) IN
        IF promises[p].fn = "connect" THEN connectResumed(p)
                                      ELSE closeResumed(p)
    /\ immediates' = Tail(immediates)
    /\ UNCHANGED <<_Engine, dbs, colls, calls, microtasks, ret, returned>>

\* A Database that starts with the cache of an earlier Database of the same
\* name.
NewDatabaseNamedCache(c, name) ==
    [_client |-> c, name |-> name,
     _collections |-> IF \E d \in DOMAIN dbs : dbs[d].name = name
                      THEN dbs[CHOOSE d \in DOMAIN dbs :
                                    dbs[d].name = name]._collections
                      ELSE <<>>]

\* new MongoishClient(url) with a valid url: the instance gets its own
\* _Engine and _isConnected fields.
NewMongoishClient ==
    /\ Len(_Engine) < MaxClients
    /\ _Engine' = Append(_Engine, NoopEngine)
    /\ _isConnected' = Append(_isConnected, FALSE)
    /\ UNCHANGED <<promises, immediates, dbs, colls, calls, microtasks, ret,
                   returned>>

\* new Database(client, dbName)
NewDatabase(c, name) == [_client |-> c, name |-> name, _collections |-> <<>>]

\* A db() that checks the connection before it validates dbName.
dbConnectedFirst(c, dbName) ==
    /\ IF NoRealEngine(_Engine[c])
       THEN /\ ret' = Threw("db", c, dbName, _isConnected[c],
                            Error("db()", MsgNoEngine))
            /\ UNCHANGED <<dbs, returned>>
       ELSE IF ~_isConnected[c]
       THEN /\ ret' = Threw("db", c, dbName, _isConnected[c],
                            Error("db()", MsgNotConnected))
            /\ UNCHANGED <<dbs, returned>>
       ELSE IF ~ValidName(dbName)
       THEN /\ ret' = Threw("db", c, dbName, _isConnected[c],
                            Error("db()", MsgInvalid))
            /\ UNCHANGED <<dbs, returned>>
       ELSE /\ Len(dbs) < MaxDbs
            /\ dbs' = Append(dbs, NewDatabase(c, dbName.s))
            /\ returned' = Append(returned, <<>>)
            /\ ret' = Returned("db", c, dbName, _isConnected[c], "Database",
                               Len(dbs) + 1)
    /\ UNCHANGED <<_Engine, _isConnected, promises, immediates, colls, calls,
                   microtasks>>

\* db(dbName)
db(c, dbName) ==
    /\ IF NoRealEngine(_Engine[c])
       THEN /\ ret' = Threw("db", c, dbName, _isConnected[c],
                            Error("db()", MsgNoEngine))
            /\ UNCHANGED <<dbs, returned>>
       ELSE IF ~ValidName(dbName)
       THEN /\ ret' = Threw("db", c, dbName, _isConnected[c],
                            Error("db()", MsgInvalid))
            /\ UNCHANGED <<dbs, returned>>
       ELSE IF ~_isConnected[c]
       THEN /\ ret' = Threw("db", c, dbName, _isConnected[c],
                            Error("db()", MsgNotConnected))
            /\ UNCHANGED <<dbs, returned>>
       ELSE /\ Len(dbs) < MaxDbs
            /\ dbs' = Append(dbs, NewDatabase(c, dbName.s))
            /\ returned' = Append(returned, <<>>)
            /\ ret' = Returned("db", c, dbName, _isConnected[c], "Database",
                               Len(dbs) + 1)
    /\ UNCHANGED <<_Engine, _isConnected, promises, immediates, colls, calls,
                   microtasks>>

\* An injectEngine() that assigns _Engine before it validates its argument.
injectEngineAssignsFirst(c, E) ==
    /\ IF AlreadyInjected(_Engine[c])
       THEN /\ ret' = Threw("injectEngine", c, E, _isConnected[c],
                            Error("injectEngine()", MsgAlreadyInjected))
            /\ UNCHANGED _Engine
       ELSE IF ~ValidEngine(E)
       THEN /\ ret' = Threw("injectEngine", c, E, _isConnected[c],
                            Error("injectEngine()", MsgInvalid))
            /\ _Engine' = [_Engine EXCEPT ![c] = E]
       ELSE /\ _Engine' = [_Engine EXCEPT ![c] = E]
            /\ ret' = Returned("injectEngine", c, E, _isConnected[c],
                               "undefined", 0)
    /\ UNCHANGED <<_isConnected, promises, immediates, dbs, colls, calls,
                   microtasks, returned>>

\* An injectEngine() that assigns to a property all clients share.
injectEngineShared(c, E) ==
    /\ IF AlreadyInjected(_Engine[c])
       THEN /\ ret' = Threw("injectEngine", c, E, _isConnected[c],
                            Error("injectEngine()", MsgAlreadyInjected))
            /\ UNCHANGED _Engine
       ELSE IF ~ValidEngine(E)
       THEN /\ ret' = Threw("injectEngine", c, E, _isConnected[c],
                            Error("injectEngine()", MsgInvalid))
            /\ UNCHANGED _Engine
       ELSE /\ _Engine' = [c2 \in DOMAIN _Engine |-> E]
            /\ ret' = Returned("injectEngine", c, E, _isConnected[c],
                               "undefined", 0)
    /\ UNCHANGED <<_isConnected, promises, immediates, dbs, colls, calls,
                   microtasks, returned>>

\* injectEngine(Engine)
injectEngine(c, E) ==
    /\ IF AlreadyInjected(_Engine[c])
       THEN /\ ret' = Threw("injectEngine", c, E, _isConnected[c],
                            Error("injectEngine()", MsgAlreadyInjected))
            /\ UNCHANGED _Engine
       ELSE IF ~ValidEngine(E)
       THEN /\ ret' = Threw("injectEngine", c, E, _isConnected[c],
                            Error("injectEngine()", MsgInvalid))
            /\ UNCHANGED _Engine
       ELSE /\ _Engine' = [_Engine EXCEPT ![c] = E]
            /\ ret' = Returned("injectEngine", c, E, _isConnected[c],
                               "undefined", 0)
    /\ UNCHANGED <<_isConnected, promises, immediates, dbs, colls, calls,
                   microtasks, returned>>

(***************************************************************************)
(* Database                                                                *)
(***************************************************************************)
\* The properties every JavaScript object literal inherits from
\* Object.prototype: obj[key] and (key in obj) find them too.
ObjectPrototypeKeys == {"constructor", "toString", "valueOf", "hasOwnProperty",
                        "isPrototypeOf", "propertyIsEnumerable",
                        "toLocaleString", "__proto__"}

\* The same keys, as sequences of characters.
InheritedNames == {Name_constructor}

\* this._collections is an object: its own properties, in insertion order,
\* as a sequence of [name, coll].
OwnIndex(obj, name) == {i \in DOMAIN obj : obj[i].name = name}
HasOwn(obj, name) == OwnIndex(obj, name) # {}
OwnValue(obj, name) == obj[CHOOSE i \in OwnIndex(obj, name) : TRUE].coll

\* Object.keys(obj)
ObjectKeys(obj) == [i \in DOMAIN obj |-> obj[i].name]

\* The engine instance made by new client._Engine(): its documents in the
\* order of insertion, and the number of identifiers it has generated.
NewEngine(E) == [methods |-> E.methods, docs |-> <<>>, gen |-> 0]

\* A Collection that takes over the engine of an earlier Collection of the
\* same name.
NewCollectionNamedStore(c, name) ==
    [_client |-> c, _collectionName |-> name,
     _engine |-> IF \E k \in DOMAIN colls : colls[k]._collectionName = name
                 THEN colls[CHOOSE k \in DOMAIN colls :
                                colls[k]._collectionName = name]._engine
                 ELSE NewEngine(_Engine[c])]

\* new Collection(client, collectionName)
NewCollection(c, name) ==
    [_client |-> c, _collectionName |-> name, _engine |-> NewEngine(_Engine[c])]

\* History: collection(name) on Database d returned the object (kind, val).
Record(d, name, kind, val) ==
    returned' = [returned EXCEPT ![d] =
        IF \E i \in DOMAIN @ : @[i].name = name THEN @
        ELSE Append(@, [name |-> name, kind |-> kind, val |-> val])]

\* A collection() that writes the name to this._collections before it
\* constructs the Collection.
collectionCachesFirst(d, collectionName) ==
    LET c == dbs[d]._client
        conn == _isConnected[c]
        obj == dbs[d]._collections
    IN
    /\ IF ~ValidName(collectionName)
       THEN /\ ret' = Threw("collection", d, collectionName, conn,
                            Error("collection()", MsgInvalid))
            /\ UNCHANGED <<dbs, colls, returned>>
       ELSE IF ~conn
       THEN /\ ret' = Threw("collection", d, collectionName, conn,
                            Error("collection()", MsgNotConnected))
            /\ UNCHANGED <<dbs, colls, returned>>
       ELSE IF HasOwn(obj, collectionName.s)
       THEN \* existing = this._collections[collectionName], an own property
            /\ ret' = Returned("collection", d, collectionName, conn,
                               "Collection", OwnValue(obj, collectionName.s))
            /\ Record(d, collectionName.s, "Collection",
                      OwnValue(obj, collectionName.s))
            /\ UNCHANGED <<dbs, colls>>
       ELSE IF collectionName.s \in InheritedNames
       THEN \* existing is the property inherited from Object.prototype
            /\ ret' = Returned("collection", d, collectionName, conn,
                               "Function", 0)
            /\ Record(d, collectionName.s, "Function", 0)
            /\ UNCHANGED <<dbs, colls>>
       ELSE IF _Engine[c].throws
       THEN
            /\ ret' = Threw("collection", d, collectionName, conn,
                            Error("", MsgConstructorThrew))
            /\ dbs' = [dbs EXCEPT ![d]._collections =
                        Append(@, [name |-> collectionName.s, coll |-> 0])]
            /\ UNCHANGED <<colls, returned>>
       ELSE /\ Len(colls) < MaxColls
            /\ colls' = Append(colls, NewCollection(c, collectionName.s))
            /\ dbs' = [dbs EXCEPT ![d]._collections =
                        Append(@, [name |-> collectionName.s,
                                   coll |-> Len(colls) + 1])]
            /\ ret' = Returned("collection", d, collectionName, conn,
                               "Collection", Len(colls) + 1)
            /\ Record(d, collectionName.s, "Collection", Len(colls) + 1)
    /\ UNCHANGED <<_Engine, _isConnected, promises, immediates, calls,
                   microtasks>>

\* collection(collectionName)
collection(d, collectionName) ==
    LET c == dbs[d]._client
        conn == _isConnected[c]
        obj == dbs[d]._collections
    IN
    /\ IF ~ValidName(collectionName)
       THEN /\ ret' = Threw("collection", d, collectionName, conn,
                            Error("collection()", MsgInvalid))
            /\ UNCHANGED <<dbs, colls, returned>>
       ELSE IF ~conn
       THEN /\ ret' = Threw("collection", d, collectionName, conn,
                            Error("collection()", MsgNotConnected))
            /\ UNCHANGED <<dbs, colls, returned>>
       ELSE IF HasOwn(obj, collectionName.s)
       THEN \* existing = this._collections[collectionName], an own property
            /\ ret' = Returned("collection", d, collectionName, conn,
                               "Collection", OwnValue(obj, collectionName.s))
            /\ Record(d, collectionName.s, "Collection",
                      OwnValue(obj, collectionName.s))
            /\ UNCHANGED <<dbs, colls>>
       ELSE IF collectionName.s \in InheritedNames
       THEN \* existing is the property inherited from Object.prototype
            /\ ret' = Returned("collection", d, collectionName, conn,
                               "Function", 0)
            /\ Record(d, collectionName.s, "Function", 0)
            /\ UNCHANGED <<dbs, colls>>
       ELSE IF _Engine[c].throws
       THEN \* new client._Engine() throws inside new Collection(): the
            \* assignment to this._collections is not reached
            /\ ret' = Threw("collection", d, collectionName, conn,
                            Error("", MsgConstructorThrew))
            /\ UNCHANGED <<dbs, colls, returned>>
       ELSE /\ Len(colls) < MaxColls
            /\ colls' = Append(colls, NewCollection(c, collectionName.s))
            /\ dbs' = [dbs EXCEPT ![d]._collections =
                        Append(@, [name |-> collectionName.s,
                                   coll |-> Len(colls) + 1])]
            /\ ret' = Returned("collection", d, collectionName, conn,
                               "Collection", Len(colls) + 1)
            /\ Record(d, collectionName.s, "Collection", Len(colls) + 1)
    /\ UNCHANGED <<_Engine, _isConnected, promises, immediates, calls,
                   microtasks>>

\* A dropDatabase() that leaves _collections as it is.
dropDatabaseKeeps(d) ==
    /\ ret' = Returned("dropDatabase", d, Null, _isConnected[dbs[d]._client],
                       "Promise<true>", 0)
    /\ UNCHANGED <<_Engine, _isConnected, promises, immediates, dbs, colls,
                   calls, microtasks, returned>>

\* async dropDatabase(): it has no await, so it runs whole at the call.
dropDatabase(d) ==
    /\ dbs' = [dbs EXCEPT ![d]._collections = <<>>]
    /\ returned' = [returned EXCEPT ![d] = <<>>]
    /\ ret' = Returned("dropDatabase", d, Null, _isConnected[dbs[d]._client],
                       "Promise<true>", 0)
    /\ UNCHANGED <<_Engine, _isConnected, promises, immediates, colls, calls,
                   microtasks>>

\* listCollections()
listCollections(d) ==
    /\ ret' = Ret("listCollections", d, Null, _isConnected[dbs[d]._client],
                  NoError, "Array", 0, ObjectKeys(dbs[d]._collections))
    /\ UNCHANGED <<_Engine, _isConnected, promises, immediates, dbs, colls,
                   calls, microtasks, returned>>

(***************************************************************************)
(* Documents and the engine.  A document has an _id ("" when it has none)  *)
(* and a payload x.  The engine is not part of this repository: an          *)
(* instance keeps the documents it was given, in order, gives a document    *)
(* without _id a token it has not used before, and answers find() and       *)
(* count() from what it holds when they are called (PicoDB's contract).     *)
(***************************************************************************)
Doc(id, x) == [type |-> "object", _id |-> id, x |-> x]
NotAnObject == [type |-> "null", _id |-> "", x |-> 0]
AnArray == [type |-> "array", _id |-> "", x |-> 0]

Array(items) == [type |-> "array", items |-> items]
NotAnArray == [type |-> "null", items |-> <<>>]

\* The tokens an engine generates, in the order it generates them.
Tokens == <<"0k", "1k", "2k", "3k", "4k", "5k", "6k", "7k", "8k", "9k">>

\* aintaObject(document, 'document', { begin, open:true }) finds nothing.
ValidDocument(document) == document.type = "object"

\* aintaArray(documents, 'documents', { begin, types:['object'] }) finds nothing.
ValidDocuments(documents) ==
    /\ documents.type = "array"
    /\ \A i \in DOMAIN documents.items : documents.items[i].type = "object"

\* engine.count({ _id })
EngineCount(e, id) == Cardinality({i \in DOMAIN e.docs : e.docs[i]._id = id})

\* A find() that takes no notice of its filter.
EngineFindInAll(e, ids) == {e.docs[i]._id : i \in DOMAIN e.docs}

\* engine.find({ _id: { $in: ids } }).toArray(), as the set of _ids found.
EngineFindIn(e, ids) == {e.docs[i]._id : i \in DOMAIN e.docs} \cap ids

\* engine.find(filter).toArray() for the filter { _id: id }, and for {} when
\* filter._id is "": the documents found, in the order they are stored in.
EngineFind(e, filter) ==
    SelectSeq(e.docs, LAMBDA d : filter._id = "" \/ d._id = filter._id)

\* The documents as the engine stores and returns them, the first taking the
\* token after gen tokens have been used.
RECURSIVE Inserted(_, _)
Inserted(items, gen) ==
    IF items = <<>> THEN <<>>
    ELSE IF Head(items)._id = ""
    THEN <<Doc(Tokens[gen + 1], Head(items).x)>> \o Inserted(Tail(items), gen + 1)
    ELSE <<Head(items)>> \o Inserted(Tail(items), gen)

Generated(items) == Len(SelectSeq(items, LAMBDA d : d._id = ""))

\* engine.insertMany(items), and engine.insertOne(item) as insertMany([item]).
EngineInsert(e, items) ==
    [e EXCEPT !.docs = @ \o Inserted(items, e.gen),
              !.gen = @ + Generated(items)]

(***************************************************************************)
(* Collection.insertMany(): the scan for duplicates within the argument.   *)
(***************************************************************************)
MsgSameId == "has the same _id as"
MsgAlreadyContains == "Collection already contains a document with _id"
MsgE11000 == "E11000 duplicate key error collection"

\* documents.filter(d => d._id)
DocsWithIds(items) == SelectSeq(items, LAMBDA d : d._id # "")

\* _id in encountered
InEncountered(id, encountered) ==
    id \in DOMAIN encountered \/ id \in ObjectPrototypeKeys

\* encountered[_id], as the number the message shows (-1 when it is no number)
EncounteredAt(id, encountered) ==
    IF id \in DOMAIN encountered THEN encountered[id] ELSE -1

\* docsWithIds.forEach(({ _id }, i) => { ... }), from its element i (0-based)
\* on: the Error it throws, or NoError.
RECURSIVE ForEachEncountered(_, _, _)
ForEachEncountered(docsWithIds, i, encountered) ==
    IF i >= Len(docsWithIds) THEN NoError
    ELSE LET id == docsWithIds[i + 1]._id IN
         IF InEncountered(id, encountered)
         THEN Err("insertMany()", MsgSameId, <<>>, id, i,
                  EncounteredAt(id, encountered))
         ELSE ForEachEncountered(docsWithIds, i + 1,
                  [k \in DOMAIN encountered \cup {id} |->
                      IF k = id THEN i ELSE encountered[k]])

EmptyObject == [k \in {} |-> 0]

\* An insertMany() without the scan for duplicates within its argument.
IntraBatchErrorSkipped(items) == NoError

\* The Error of the scan for duplicates within documents, or NoError.
IntraBatchError(items) == ForEachEncountered(DocsWithIds(items), 0, EmptyObject)

(***************************************************************************)
(* Collection: insertOne(), insertMany() and find().                       *)
(***************************************************************************)
\* A call of an async method and its promise: the Collection it was made on,
\* its argument, _isConnected and the engine's documents at the call; where
\* it is suspended (pc) with what the engine answered (n, dupes, result);
\* and how its promise settled (status, err, val).
Call(op, coll, arg, connected, pre, pc, n, dupes, result, status, err, val) ==
    [op |-> op, coll |-> coll, arg |-> arg, connected |-> connected,
     pre |-> pre, pc |-> pc, n |-> n, dupes |-> dupes, result |-> result,
     status |-> status, err |-> err, val |-> val]

NoVal == [acknowledged |-> FALSE]
NoCall == Call("", 0, NotAnArray, FALSE, <<>>, "", 0, {}, <<>>, "none",
               NoError, NoVal)

Rejected(op, k, arg, err) ==
    Call(op, k, arg, _isConnected[colls[k]._client], colls[k]._engine.docs,
         "", 0, {}, <<>>, "rejected", err, NoVal)

Awaiting(op, k, arg, pc, n, dupes, result) ==
    Call(op, k, arg, _isConnected[colls[k]._client], colls[k]._engine.docs,
         pc, n, dupes, result, "pending", NoError, NoVal)

RECURSIVE SumOver(_, _)
SumOver(S, f) ==
    IF S = {} THEN 0
    ELSE LET x == CHOOSE y \in S : TRUE IN f[x] + SumOver(S \ {x}, f)

\* The documents that suspended calls on Collection k are still to insert.
Reserved(k) ==
    SumOver({s \in DOMAIN calls :
                /\ calls[s].status = "pending" /\ calls[s].coll = k
                /\ \/ calls[s].pc = "count" /\ calls[s].n = 0
                   \/ calls[s].pc = "find" /\ calls[s].dupes = {}},
            [s \in DOMAIN calls |->
                IF calls[s].op = "insertOne" THEN 1
                ELSE Len(calls[s].arg.items)])

\* The engine of Collection k has room for n more documents.
HasRoom(k, n) == Len(colls[k]._engine.docs) + Reserved(k) + n <= MaxStore

\* An insert into one store that all Collections share.
EngineInsertsAll(k, items) ==
    colls' = [j \in DOMAIN colls |->
                [colls[j] EXCEPT !._engine = EngineInsert(@, items)]]

\* this._engine.insertOne(document) or this._engine.insertMany(documents)
EngineInserts(k, items) ==
    colls' = [colls EXCEPT ![k]._engine = EngineInsert(@, items)]

\* A Collection that never finds its client disconnected.
ClientConnectedAlways(k) == TRUE

\* this._client._isConnected, as insertOne(), insertMany() and find() read it
ClientConnected(k) == _isConnected[colls[k]._client]

\* async insertOne(document): the segment up to the first await.
insertOne(k, document) ==
    LET s == FreeSlot(calls)
        e == colls[k]._engine
    IN
    /\ FreeSlots(calls) # {}
    /\ IF ~ValidDocument(document)
       THEN /\ calls' = [calls EXCEPT ![s] = Rejected("insertOne", k, document,
                            Error("insertOne()", MsgInvalid))]
            /\ UNCHANGED <<colls, microtasks>>
       ELSE IF ~ClientConnected(k)
       THEN /\ calls' = [calls EXCEPT ![s] = Rejected("insertOne", k, document,
                            Error("insertOne()", MsgNotConnected))]
            /\ UNCHANGED <<colls, microtasks>>
       ELSE IF ~e.methods
       THEN \* this._engine.count or this._engine.insertOne is undefined
            /\ calls' = [calls EXCEPT ![s] = Rejected("insertOne", k, document,
                            Error("insertOne()", MsgNotAFunction))]
            /\ UNCHANGED <<colls, microtasks>>
       ELSE IF document._id # ""
       THEN \* await this._engine.count({ _id:document._id })
            /\ EngineCount(e, document._id) = 0 => HasRoom(k, 1)
            /\ calls' = [calls EXCEPT ![s] = Awaiting("insertOne", k, document,
                            "count", EngineCount(e, document._id), {}, <<>>)]
            /\ microtasks' = Append(microtasks, s)
            /\ UNCHANGED colls
       ELSE \* await this._engine.insertOne(document)
            /\ HasRoom(k, 1)
            /\ EngineInserts(k, <<document>>)
            /\ calls' = [calls EXCEPT ![s] = Awaiting("insertOne", k, document,
                            "insert", 0, {}, Inserted(<<document>>, e.gen))]
            /\ microtasks' = Append(microtasks, s)
    /\ UNCHANGED <<_Engine, _isConnected, promises, immediates, dbs, ret,
                   returned>>

\* async insertMany(documents): the segment up to the first await.
insertMany(k, documents) ==
    LET s == FreeSlot(calls)
        e == colls[k]._engine
        docsWithIds == DocsWithIds(documents.items)
        ids == {docsWithIds[i]._id : i \in DOMAIN docsWithIds}
    IN
    /\ FreeSlots(calls) # {}
    /\ IF ~ValidDocuments(documents)
       THEN /\ calls' = [calls EXCEPT ![s] = Rejected("insertMany", k,
                            documents, Error("insertMany()", MsgInvalid))]
            /\ UNCHANGED <<colls, microtasks>>
       ELSE IF ~ClientConnected(k)
       THEN /\ calls' = [calls EXCEPT ![s] = Rejected("insertMany", k,
                            documents, Error("insertMany()", MsgNotConnected))]
            /\ UNCHANGED <<colls, microtasks>>
       ELSE IF Len(docsWithIds) > 0 /\ IntraBatchError(documents.items) # NoError
       THEN /\ calls' = [calls EXCEPT ![s] = Rejected("insertMany", k,
                            documents, IntraBatchError(documents.items))]
            /\ UNCHANGED <<colls, microtasks>>
       ELSE IF ~e.methods
       THEN \* this._engine.find or this._engine.insertMany is undefined
            /\ calls' = [calls EXCEPT ![s] = Rejected("insertMany", k,
                            documents, Error("insertMany()", MsgNotAFunction))]
            /\ UNCHANGED <<colls, microtasks>>
       ELSE IF Len(docsWithIds) > 0
       THEN \* await this._engine.find({ _id:{$in:ids} }).toArray()
            /\ EngineFindIn(e, ids) = {} => HasRoom(k, Len(documents.items))
            /\ calls' = [calls EXCEPT ![s] = Awaiting("insertMany", k,
                            documents, "find", 0, EngineFindIn(e, ids), <<>>)]
            /\ microtasks' = Append(microtasks, s)
            /\ UNCHANGED colls
       ELSE \* await this._engine.insertMany(documents)
            /\ HasRoom(k, Len(documents.items))
            /\ EngineInserts(k, documents.items)
            /\ calls' = [calls EXCEPT ![s] = Awaiting("insertMany", k,
                            documents, "insert", 0, {},
                            Inserted(documents.items, e.gen))]
            /\ microtasks' = Append(microtasks, s)
    /\ UNCHANGED <<_Engine, _isConnected, promises, immediates, dbs, ret,
                   returned>>

\* An insertOne() that takes a count of one for no duplicate.
insertOneCountedLenient(s) ==
    LET k == calls[s].coll
        document == calls[s].arg
    IN
    IF calls[s].n > 1
    THEN /\ calls' = [calls EXCEPT ![s].pc = "", ![s].status = "rejected",
                ![s].err = Err("insertOne()", MsgE11000,
                               colls[k]._collectionName, document._id, -1, -1)]
         /\ microtasks' = Tail(microtasks)
         /\ UNCHANGED colls
    ELSE /\ EngineInserts(k, <<document>>)
         /\ calls' = [calls EXCEPT ![s].pc = "insert",
                ![s].result = Inserted(<<document>>, colls[k]._engine.gen)]
         /\ microtasks' = Append(Tail(microtasks), s)

\* insertOne() after await this._engine.count(...)
insertOneCounted(s) ==
    LET k == calls[s].coll
        document == calls[s].arg
    IN
    IF calls[s].n # 0
    THEN /\ calls' = [calls EXCEPT ![s].pc = "", ![s].status = "rejected",
                ![s].err = Err("insertOne()", MsgE11000,
                               colls[k]._collectionName, document._id, -1, -1)]
         /\ microtasks' = Tail(microtasks)
         /\ UNCHANGED colls
    ELSE /\ EngineInserts(k, <<document>>)
         /\ calls' = [calls EXCEPT ![s].pc = "insert",
                ![s].result = Inserted(<<document>>, colls[k]._engine.gen)]
         /\ microtasks' = Append(Tail(microtasks), s)

\* An insertOne() that returns the _id of its argument.
insertOneInsertedSupplied(s) ==
    /\ calls' = [calls EXCEPT ![s].pc = "", ![s].status = "resolved",
            ![s].val = [acknowledged |-> TRUE,
                        insertedId |-> calls[s].arg._id]]
    /\ microtasks' = Tail(microtasks)
    /\ UNCHANGED colls

\* insertOne() after await this._engine.insertOne(document)
insertOneInserted(s) ==
    /\ calls' = [calls EXCEPT ![s].pc = "", ![s].status = "resolved",
            ![s].val = [acknowledged |-> TRUE,
                        insertedId |-> calls[s].result[1]._id]]
    /\ microtasks' = Tail(microtasks)
    /\ UNCHANGED colls

\* An insertMany() that does not look at what the engine found.
insertManyFoundUnchecked(s) ==
    LET k == calls[s].coll
        documents == calls[s].arg
    IN
    /\ EngineInserts(k, documents.items)
    /\ calls' = [calls EXCEPT ![s].pc = "insert",
            ![s].result = Inserted(documents.items, colls[k]._engine.gen)]
    /\ microtasks' = Append(Tail(microtasks), s)

\* An insertMany() that stores the documents the engine did not find before
\* it reports the one it found.
insertManyFoundPartial(s) ==
    LET k == calls[s].coll
        documents == calls[s].arg
        fresh == SelectSeq(documents.items, LAMBDA d : d._id \notin calls[s].dupes)
    IN
    IF calls[s].dupes # {}
    THEN /\ \E id \in calls[s].dupes :
              calls' = [calls EXCEPT ![s].pc = "", ![s].status = "rejected",
                ![s].err = Err("insertMany()", MsgAlreadyContains,
                               colls[k]._collectionName, id, -1, -1)]
         /\ microtasks' = Tail(microtasks)
         /\ EngineInserts(k, fresh)
    ELSE /\ EngineInserts(k, documents.items)
         /\ calls' = [calls EXCEPT ![s].pc = "insert",
                ![s].result = Inserted(documents.items, colls[k]._engine.gen)]
         /\ microtasks' = Append(Tail(microtasks), s)

\* insertMany() after await this._engine.find(...).toArray()
insertManyFound(s) ==
    LET k == calls[s].coll
        documents == calls[s].arg
    IN
    IF calls[s].dupes # {}
    THEN \* dupes[0] is the engine's choice among the documents it found
         /\ \E id \in calls[s].dupes :
              calls' = [calls EXCEPT ![s].pc = "", ![s].status = "rejected",
                ![s].err = Err("insertMany()", MsgAlreadyContains,
                               colls[k]._collectionName, id, -1, -1)]
         /\ microtasks' = Tail(microtasks)
         /\ UNCHANGED colls
    ELSE /\ EngineInserts(k, documents.items)
         /\ calls' = [calls EXCEPT ![s].pc = "insert",
                ![s].result = Inserted(documents.items, colls[k]._engine.gen)]
         /\ microtasks' = Append(Tail(microtasks), s)

\* An insertedIds that leaves out the first document.
InsertedIdsOfTail(result) == [i \in 1..(Len(result) - 1) |-> result[i + 1]._id]

\* result.reduce((a,d,i) => ({ ...a, [i]:d._id}), {}): element i+1 is key i.
InsertedIds(result) == [i \in DOMAIN result |-> result[i]._id]

\* insertMany() after await this._engine.insertMany(documents)
insertManyInserted(s) ==
    /\ calls' = [calls EXCEPT ![s].pc = "", ![s].status = "resolved",
            ![s].val = [acknowledged |-> TRUE,
                        insertedCount |-> Len(calls[s].result),
                        insertedIds |-> InsertedIds(calls[s].result)]]
    /\ microtasks' = Tail(microtasks)
    /\ UNCHANGED colls

\* A continuation that gives up when the client is no longer connected.
ResumeGated ==
    /\ microtasks # <<>>
    /\ LET s == Head(microtasks) IN
        IF ~_isConnected[colls[calls[s].coll]._client]
        THEN /\ calls' = [calls EXCEPT ![s].pc = "", ![s].status = "rejected",
                    ![s].err = Error(IF calls[s].op = "insertOne"
                                     THEN "insertOne()" ELSE "insertMany()",
                                     MsgNotConnected)]
             /\ microtasks' = Tail(microtasks)
             /\ UNCHANGED colls
        ELSE
        CASE calls[s].op = "insertOne" /\ calls[s].pc = "count" ->
                insertOneCounted(s)
          [] calls[s].op = "insertOne" /\ calls[s].pc = "insert" ->
                insertOneInserted(s)
          [] calls[s].op = "insertMany" /\ calls[s].pc = "find" ->
                insertManyFound(s)
          [] calls[s].op = "insertMany" /\ calls[s].pc = "insert" ->
                insertManyInserted(s)
    /\ UNCHANGED <<_Engine, _isConnected, promises, immediates, dbs, ret,
                   returned>>

\* The oldest microtask runs: the call at the head of the queue continues
\* after its await.
Resume ==
    /\ microtasks # <<>>
    /\ LET s == Head(microtasks) IN
        CASE calls[s].op = "insertOne" /\ calls[s].pc = "count" ->
                insertOneCounted(s)
          [] calls[s].op = "insertOne" /\ calls[s].pc = "insert" ->
                insertOneInserted(s)
          [] calls[s].op = "insertMany" /\ calls[s].pc = "find" ->
                insertManyFound(s)
          [] calls[s].op = "insertMany" /\ calls[s].pc = "insert" ->
                insertManyInserted(s)
    /\ UNCHANGED <<_Engine, _isConnected, promises, immediates, dbs, ret,
                   returned>>

\* A filter: { _id: id }, or {} when id is "".
Filter(id) == [type |-> "object", _id |-> id, x |-> 0]

\* A find() without the check that the client is connected.
findUnchecked(k, filter) ==
    LET conn == _isConnected[colls[k]._client] IN
    /\ IF ~ValidDocument(filter)
       THEN ret' = Threw("find", k, filter, conn, Error("find()", MsgInvalid))
       ELSE IF ~colls[k]._engine.methods
       THEN ret' = Threw("find", k, filter, conn,
                         Error("find()", MsgNotAFunction))
       ELSE ret' = Returned("find", k, filter, conn, "Cursor", k)
    /\ UNCHANGED <<_Engine, _isConnected, promises, immediates, dbs, colls,
                   calls, microtasks, returned>>

\* find(filter)
find(k, filter) ==
    LET conn == _isConnected[colls[k]._client] IN
    /\ IF ~ValidDocument(filter)
       THEN ret' = Threw("find", k, filter, conn, Error("find()", MsgInvalid))
       ELSE IF ~ClientConnected(k)
       THEN ret' = Threw("find", k, filter, conn,
                         Error("find()", MsgNotConnected))
       ELSE IF ~colls[k]._engine.methods
       THEN ret' = Threw("find", k, filter, conn,
                         Error("find()", MsgNotAFunction))
       ELSE ret' = Returned("find", k, filter, conn, "Cursor", k)
    /\ UNCHANGED <<_Engine, _isConnected, promises, immediates, dbs, colls,
                   calls, microtasks, returned>>

\* A toArray() that looks at the connection of the client.
toArrayGated ==
    /\ ret.kind = "Cursor"
    /\ LET k == ret.on
           conn == _isConnected[colls[k]._client]
       IN
       IF ~conn
       THEN ret' = Threw("toArray", k, ret.arg, conn,
                         Error("toArray()", MsgNotConnected))
       ELSE ret' = [Ret("toArray", k, ret.arg, conn, NoError, "Promise<Array>",
                        0, <<>>)
                    EXCEPT !.docs = EngineFind(colls[k]._engine, ret.arg)]
    /\ UNCHANGED <<_Engine, _isConnected, promises, immediates, dbs, colls,
                   calls, microtasks, returned>>

\* cursor.toArray() on the cursor that find() has just returned: the engine
\* evaluates the filter now, on the documents it holds now.  The cursor is
\* the engine's object; it has no reference to the client.
toArray ==
    /\ ret.kind = "Cursor"
    /\ LET k == ret.on
           conn == _isConnected[colls[k]._client]
       IN
       ret' = [Ret("toArray", k, ret.arg, conn, NoError, "Promise<Array>",
                   0, <<>>)
               EXCEPT !.docs = EngineFind(colls[k]._engine, ret.arg)]
    /\ UNCHANGED <<_Engine, _isConnected, promises, immediates, dbs, colls,
                   calls, microtasks, returned>>

(***************************************************************************)
(* The state after new MongoishClient(url), for an application that has at *)
(* most P calls of connect() and close() and S calls of insertOne() and    *)
(* insertMany() unsettled at a time.                                       *)
(***************************************************************************)
Constructed(P, S) ==
    /\ _Engine = [c \in {1} |-> NoopEngine]
    /\ _isConnected = [c \in {1} |-> FALSE]
    /\ promises = [p \in P |-> NoPromise]
    /\ immediates = <<>>
    /\ dbs = <<>>
    /\ colls = <<>>
    /\ calls = [s \in S |-> NoCall]
    /\ microtasks = <<>>
    /\ ret = NoRet
    /\ returned = <<>>

Init == Constructed({1}, {1})

\* The state after injectEngine(PicoDB), await connect(), db('db_1') and
\* collection('coll_1') on that Database.
InitCollection ==
    /\ _Engine = [c \in {1} |-> PicoDB]
    /\ _isConnected = [c \in {1} |-> TRUE]
    /\ promises = [p \in {1} |-> Promise("connect", 1, FALSE, "resolved", NoError)]
    /\ immediates = <<>>
    /\ dbs = <<[_client |-> 1, name |-> Name_db_1,
                _collections |-> <<[name |-> Name_coll_1, coll |-> 1]>>]>>
    /\ colls = <<[_client |-> 1, _collectionName |-> Name_coll_1,
                  _engine |-> NewEngine(PicoDB)]>>
    /\ calls = [s \in {1} |-> NoCall]
    /\ microtasks = <<>>
    /\ ret = Returned("collection", 1, Str(Name_coll_1), TRUE, "Collection", 1)
    /\ returned = <<<<[name |-> Name_coll_1, kind |-> "Collection", val |-> 1]>>>>

(***************************************************************************)
(* The arguments the application passes.                                   *)
(***************************************************************************)
Batches(D, n) == UNION {[1..m -> D] : m \in 0..n}

\* To injectEngine(): classes that pass its validation and values that fail.
EngineArgs == {PicoDB, MockEngine, SecondEngine, NotAnEngine, NamelessEngine,
               VersionlessEngine}

\* To db(): a valid name, and null, '', '1_db', 'myDb'.
DbNameArgs == {Str(Name_db_1), Null, Str(<<>>), Str(<<"1", "_", "d", "b">>),
               Str(<<"m", "y", "D", "b">>)}

\* To collection(): valid names, and '_coll_1'.
CollectionNameArgs == {Str(Name_coll_1), Str(Name_coll_2), Str(Name_constructor),
                       Str(<<"_", "c", "o", "l", "l", "_", "1">>)}

\* To insertOne() and insertMany().
Ids == {"a", "b"}
Payloads == {1, 2}
Docs == {Doc(id, x) : id \in Ids \cup {""}, x \in Payloads}
DocumentArgs == Docs \cup {NotAnObject}
BatchDocs == {Doc("a", 1), Doc("b", 2), Doc("", 1)}
DocumentsArgs ==
    {Array(b) : b \in Batches(BatchDocs, MaxBatch)}
        \cup {NotAnArray, Array(<<Doc("", 1), AnArray>>)}

\* To insertMany(), where only the scan for duplicates runs.
ScanDocs == Docs
ScanDocumentsArgs == {Array(b) : b \in Batches(ScanDocs, MaxScanBatch)}

(***************************************************************************)
(* Spec: the client and the operations that need a connected client, from  *)
(* construction, each with one valid argument.                             *)
(***************************************************************************)
Next ==
    \/ \E c \in Clients : connect(c)
    \/ \E c \in Clients : close(c)
    \/ Tick
    \/ \E c \in Clients : injectEngine(c, PicoDB)
    \/ \E c \in Clients : db(c, Str(Name_db_1))
    \/ \E d \in DOMAIN dbs : collection(d, Str(Name_coll_1))
    \/ \E k \in DOMAIN colls : insertOne(k, Doc("a", 1))
    \/ \E k \in DOMAIN colls : insertMany(k, Array(<<Doc("a", 2)>>))
    \/ Resume
    \/ \E k \in DOMAIN colls : find(k, Filter(""))

Spec == Init /\ [][Next]_vars

(***************************************************************************)
(* SpecClient: the methods of MongoishClient, from construction, with two  *)
(* calls of connect() and close() unsettled at a time.                     *)
(***************************************************************************)
NextClient ==
    \/ \E c \in Clients : connect(c)
    \/ \E c \in Clients : close(c)
    \/ Tick
    \/ \E c \in Clients, E \in EngineArgs : injectEngine(c, E)
    \/ \E c \in Clients, dbName \in DbNameArgs : db(c, dbName)

ClientPromiseSlots == {1, 2}

SpecClient == Constructed(ClientPromiseSlots, {1}) /\ [][NextClient]_vars

\* Node runs every callback given to setImmediate().
SpecClientFair == SpecClient /\ WF_vars(Tick)

(***************************************************************************)
(* SpecDb: the methods of MongoishClient and Database, from construction.  *)
(***************************************************************************)
NextDb ==
    \/ \E c \in Clients : connect(c)
    \/ \E c \in Clients : close(c)
    \/ Tick
    \/ \E c \in Clients : injectEngine(c, MockEngine)
    \/ \E c \in Clients : db(c, Str(Name_db_1))
    \/ \E d \in DOMAIN dbs, collectionName \in CollectionNameArgs :
            collection(d, collectionName)
    \/ \E d \in DOMAIN dbs : dropDatabase(d)
    \/ \E d \in DOMAIN dbs : listCollections(d)

SpecDb == Init /\ [][NextDb]_vars

(***************************************************************************)
(* SpecWrites: insertOne() and insertMany() on one Collection of a client  *)
(* that connects and closes, each call awaited before the next is made.    *)
(***************************************************************************)
NextWrites ==
    \/ \E c \in Clients : connect(c)
    \/ \E c \in Clients : close(c)
    \/ Tick
    \/ \E k \in DOMAIN colls, document \in DocumentArgs :
            insertOne(k, document)
    \/ \E k \in DOMAIN colls, documents \in DocumentsArgs :
            insertMany(k, documents)
    \/ Resume

SpecWrites == InitCollection /\ [][NextWrites]_vars

(***************************************************************************)
(* SpecScan: one insertMany() on the empty Collection of a connected       *)
(* client, with longer arrays.                                             *)
(***************************************************************************)
NextScan ==
    \/ \E k \in DOMAIN colls, documents \in ScanDocumentsArgs :
            /\ calls[1].status = "none"
            /\ insertMany(k, documents)
    \/ Resume

SpecScan == InitCollection /\ [][NextScan]_vars

(***************************************************************************)
(* SpecOps: every operation of the client, of its Databases and of their   *)
(* Collections, from construction, each with a valid argument and with one *)
(* that fails its validation.                                              *)
(***************************************************************************)
OpsDbNameArgs == {Str(Name_db_1), Null}
OpsCollectionNameArgs == {Str(Name_coll_1), Str(<<"_", "c", "o", "l", "l", "_", "1">>)}
OpsDocumentArgs == {Doc("a", 1), NotAnObject}
OpsDocumentsArgs == {Array(<<Doc("a", 2)>>), NotAnArray}
OpsFilterArgs == {Filter(""), NotAnObject}

\* The application makes one Database and one Collection: it calls db() and
\* collection() again only where they make no new instance.
MakesNoDatabase(c, dbName) ==
    Len(dbs) = 0 \/ ~ValidName(dbName) \/ ~_isConnected[c]
MakesNoCollection(d, collectionName) ==
    \/ Len(colls) = 0
    \/ ~ValidName(collectionName)
    \/ ~_isConnected[dbs[d]._client]
    \/ HasOwn(dbs[d]._collections, collectionName.s)

NextOps ==
    \/ \E c \in Clients : connect(c)
    \/ \E c \in Clients : close(c)
    \/ Tick
    \/ \E c \in Clients : injectEngine(c, PicoDB)
    \/ \E c \in Clients, dbName \in OpsDbNameArgs :
            MakesNoDatabase(c, dbName) /\ db(c, dbName)
    \/ \E d \in DOMAIN dbs, collectionName \in OpsCollectionNameArgs :
            MakesNoCollection(d, collectionName) /\ collection(d, collectionName)
    \/ \E d \in DOMAIN dbs : dropDatabase(d)
    \/ \E d \in DOMAIN dbs : listCollections(d)
    \/ \E k \in DOMAIN colls, document \in OpsDocumentArgs :
            insertOne(k, document)
    \/ \E k \in DOMAIN colls, documents \in OpsDocumentsArgs :
            insertMany(k, documents)
    \/ Resume
    \/ \E k \in DOMAIN colls, filter \in OpsFilterArgs : find(k, filter)

SpecOps == Init /\ [][NextOps]_vars

(***************************************************************************)
(* SpecPair: two calls of insertOne() and insertMany() on the empty        *)
(* Collection of a connected client, the second made before the first has  *)
(* continued after its await; then the microtasks run.                     *)
(***************************************************************************)
PairCallSlots == {1, 2}

InitPair ==
    /\ _Engine = [c \in {1} |-> PicoDB]
    /\ _isConnected = [c \in {1} |-> TRUE]
    /\ promises = [p \in {1} |-> Promise("connect", 1, FALSE, "resolved", NoError)]
    /\ immediates = <<>>
    /\ dbs = <<[_client |-> 1, name |-> Name_db_1,
                _collections |-> <<[name |-> Name_coll_1, coll |-> 1]>>]>>
    /\ colls = <<[_client |-> 1, _collectionName |-> Name_coll_1,
                  _engine |-> NewEngine(PicoDB)]>>
    /\ calls = [s \in PairCallSlots |-> NoCall]
    /\ microtasks = <<>>
    /\ ret = Returned("collection", 1, Str(Name_coll_1), TRUE, "Collection", 1)
    /\ returned = <<<<[name |-> Name_coll_1, kind |-> "Collection", val |-> 1]>>>>

\* The slot the next call takes has held no call: the first call is pending
\* when the second is made.
UnusedSlot == FreeSlots(calls) # {} /\ calls[FreeSlot(calls)].status = "none"

\* Both calls have been made.
BothCalled == \A s \in PairCallSlots : calls[s].status # "none"

NextPair ==
    \/ \E k \in DOMAIN colls, document \in DocumentArgs :
            UnusedSlot /\ insertOne(k, document)
    \/ \E k \in DOMAIN colls, documents \in DocumentsArgs :
            UnusedSlot /\ insertMany(k, documents)
    \/ BothCalled /\ Resume

SpecPair == InitPair /\ [][NextPair]_vars

(***************************************************************************)
(* SpecDrop: collection() and dropDatabase() on the one Database of a      *)
(* connected client, and insertOne() and find() on its Collections, those  *)
(* made before a dropDatabase() too.                                       *)
(***************************************************************************)
DropCollectionNameArgs == {Str(Name_coll_1), Str(Name_constructor)}

NextDrop ==
    \/ \E d \in DOMAIN dbs, collectionName \in DropCollectionNameArgs :
            collection(d, collectionName)
    \/ \E d \in DOMAIN dbs : dropDatabase(d)
    \/ \E k \in DOMAIN colls : insertOne(k, Doc("a", 1))
    \/ Resume
    \/ \E k \in DOMAIN colls : find(k, Filter("a"))

SpecDrop == InitCollection /\ [][NextDrop]_vars

(***************************************************************************)
(* SpecLazy: a client bound to an engine whose instances have no methods,  *)
(* or to PicoDB, then connected; its one Database, the Collections of     *)
(* that and their operations.                                              *)
(***************************************************************************)
LazyEngineArgs == {MockEngine, PicoDB}
LazyCollectionNameArgs == {Str(Name_coll_1), Str(Name_constructor)}
LazyDocumentArgs == {Doc("a", 1), Doc("", 1)}
LazyDocumentsArgs == {Array(<<Doc("a", 2)>>), Array(<<>>)}

NextLazy ==
    \/ \E c \in Clients : connect(c)
    \/ Tick
    \/ \E c \in Clients, E \in LazyEngineArgs : injectEngine(c, E)
    \/ \E c \in Clients :
            MakesNoDatabase(c, Str(Name_db_1)) /\ db(c, Str(Name_db_1))
    \/ \E d \in DOMAIN dbs, collectionName \in LazyCollectionNameArgs :
            collection(d, collectionName)
    \/ \E k \in DOMAIN colls, document \in LazyDocumentArgs :
            insertOne(k, document)
    \/ \E k \in DOMAIN colls, documents \in LazyDocumentsArgs :
            insertMany(k, documents)
    \/ Resume
    \/ \E k \in DOMAIN colls : find(k, Filter(""))

SpecLazy == Init /\ [][NextLazy]_vars

(***************************************************************************)
(* SpecIds: one insertMany() on the empty Collection of a connected        *)
(* client, with _ids that are names of properties of Object.prototype.     *)
(***************************************************************************)
IdsDocs == {Doc("a", 1), Doc("b", 2), Doc("toString", 1), Doc("constructor", 2),
            Doc("", 1)}
IdsDocumentsArgs == {Array(b) : b \in Batches(IdsDocs, MaxScanBatch)}

NextIds ==
    \/ \E k \in DOMAIN colls, documents \in IdsDocumentsArgs :
            /\ calls[1].status = "none"
            /\ insertMany(k, documents)
    \/ Resume

SpecIds == InitCollection /\ [][NextIds]_vars

(***************************************************************************)
(* SpecCursor: find() on the Collection of a client that connects and      *)
(* closes, the draining of the cursor it returns, and insertOne().         *)
(***************************************************************************)
CursorDocumentArgs == {Doc("a", 1), Doc("b", 2)}
CursorFilterArgs == {Filter(""), Filter("a"), NotAnObject}

NextCursor ==
    \/ \E c \in Clients : connect(c)
    \/ \E c \in Clients : close(c)
    \/ Tick
    \/ \E k \in DOMAIN colls, document \in CursorDocumentArgs :
            insertOne(k, document)
    \/ Resume
    \/ \E k \in DOMAIN colls, filter \in CursorFilterArgs : find(k, filter)
    \/ toArray

SpecCursor == InitCollection /\ [][NextCursor]_vars

(***************************************************************************)
(* SpecIsolation: a connected client with several Databases of one name    *)
(* and several Collections, of the same and of different names, and        *)
(* inserts of one _id into them.                                           *)
(***************************************************************************)
IsolationCollectionNameArgs == {Str(Name_coll_1), Str(Name_coll_2)}

NextIsolation ==
    \/ \E c \in Clients : db(c, Str(Name_db_1))
    \/ \E d \in DOMAIN dbs, collectionName \in IsolationCollectionNameArgs :
            collection(d, collectionName)
    \/ \E k \in DOMAIN colls : insertOne(k, Doc("a", 1))
    \/ \E k \in DOMAIN colls : insertMany(k, Array(<<Doc("a", 1)>>))
    \/ Resume

SpecIsolation == InitCollection /\ [][NextIsolation]_vars

(***************************************************************************)
(* SpecFailed: collection() with valid and invalid names on the one        *)
(* Database of a client that connects and closes, bound to PicoDB or to an *)
(* engine whose constructor throws; and listCollections().                 *)
(***************************************************************************)
FailedEngineArgs == {PicoDB, ThrowingEngine}
FailedCollectionNameArgs ==
    {Str(Name_coll_1), Str(Name_coll_2), Null,
     Str(<<"_", "c", "o", "l", "l", "_", "1">>)}

NextFailed ==
    \/ \E c \in Clients : connect(c)
    \/ \E c \in Clients : close(c)
    \/ Tick
    \/ \E c \in Clients, E \in FailedEngineArgs : injectEngine(c, E)
    \/ \E c \in Clients :
            MakesNoDatabase(c, Str(Name_db_1)) /\ db(c, Str(Name_db_1))
    \/ \E d \in DOMAIN dbs, collectionName \in FailedCollectionNameArgs :
            collection(d, collectionName)
    \/ \E d \in DOMAIN dbs : listCollections(d)

SpecFailed == Init /\ [][NextFailed]_vars

(***************************************************************************)
(* SpecClients: several clients, constructed at any time, each bound,      *)
(* connected and closed on its own.                                        *)
(***************************************************************************)
ClientsEngineArgs == {PicoDB, SecondEngine}

NextClients ==
    \/ NewMongoishClient
    \/ \E c \in Clients : connect(c)
    \/ \E c \in Clients : close(c)
    \/ Tick
    \/ \E c \in Clients, E \in ClientsEngineArgs : injectEngine(c, E)

SpecClients == Constructed(ClientPromiseSlots, {1}) /\ [][NextClients]_vars

(***************************************************************************)
(* The properties.                                                         *)
(***************************************************************************)
\* The text an Error of the method op begins with.
Begin(op) == CASE op = "db" -> "db()"
               [] op = "collection" -> "collection()"
               [] op = "find" -> "find()"
               [] op = "insertOne" -> "insertOne()"
               [] op = "insertMany" -> "insertMany()"
               [] OTHER -> ""

NotConnectedError(op) == Error(Begin(op), MsgNotConnected)

\* The client a synchronous call was made on, directly or through a
\* Database or a Collection.
ClientOf(r) == CASE r.op = "collection" -> dbs[r.on]._client
                 [] r.op = "find" -> colls[r.on]._client
                 [] OTHER -> r.on

Bound(c) == _Engine[c].NAME # "" /\ _Engine[c].VERSION # ""

ValidArg(op, arg) ==
    CASE op \in {"db", "collection"} -> ValidName(arg)
      [] op \in {"find", "insertOne"} -> arg.type = "object"
      [] op = "insertMany" ->
            /\ arg.type = "array"
            /\ \A i \in DOMAIN arg.items : arg.items[i].type = "object"
      [] OTHER -> FALSE

\* C1 (connection gating): db(), collection(), insertOne(), insertMany() and
\* find(), called with valid arguments on an engine-bound client while its
\* _isConnected is false, fail with the not-connected error; and while a
\* connect() issued on a disconnected client has not resolved, _isConnected
\* is still false, so that a call made then fails.
C1_ConnectionGating ==
    /\ (/\ ret.op \in {"db", "collection", "find"}
        /\ ValidArg(ret.op, ret.arg)
        /\ Bound(ClientOf(ret))
        /\ ~ret.connected)
            => ret.err = NotConnectedError(ret.op)
    /\ \A s \in DOMAIN calls :
        (/\ calls[s].op \in {"insertOne", "insertMany"}
         /\ ValidArg(calls[s].op, calls[s].arg)
         /\ ~calls[s].connected)
            => /\ calls[s].status = "rejected"
               /\ calls[s].err = NotConnectedError(calls[s].op)
    /\ \A p \in DOMAIN promises :
        (/\ promises[p].fn = "connect"
         /\ promises[p].status = "pending"
         /\ ~promises[p].connected)
            => ~_isConnected[promises[p].client]

\* C1's case: connect() is pending on a disconnected client, find() has just
\* thrown the not-connected error and an insert was rejected with it.
C1_Witness ==
    /\ \E p \in DOMAIN promises :
        /\ promises[p].fn = "connect" /\ promises[p].status = "pending"
        /\ ~promises[p].connected
    /\ ret.op = "find" /\ ret.err = NotConnectedError("find")
    /\ \E s \in DOMAIN calls :
        /\ calls[s].op = "insertMany" /\ calls[s].status = "rejected"
        /\ calls[s].err = NotConnectedError("insertMany")

\* C3 (single engine binding): once an engine is bound to a client, no step
\* changes the client's _Engine, and every injectEngine() call fails with
\* the already-injected error, whatever its argument.
C3_SingleBinding ==
    [][\A c \in Clients :
        Bound(c) =>
            /\ _Engine'[c] = _Engine[c]
            /\ (ret' # ret /\ ret'.op = "injectEngine" /\ ret'.on = c)
                => ret'.err = Error("injectEngine()", MsgAlreadyInjected)]_vars

\* C3's case: with PicoDB bound, injectEngine() of another valid engine has
\* just failed with the already-injected error.
C3_Witness ==
    /\ _Engine[1] = PicoDB
    /\ ret.op = "injectEngine" /\ ret.arg = SecondEngine
    /\ ret.err = Error("injectEngine()", MsgAlreadyInjected)

\* The documents of the Collection a call was made on.
Stored(s) == colls[calls[s].coll]._engine.docs

\* A call of op that got past the validation and the connection check.
Admitted(s, op) ==
    /\ calls[s].op = op
    /\ ValidArg(op, calls[s].arg)
    /\ calls[s].connected

\* C2 (identifier uniqueness): with every insertOne() and insertMany()
\* awaited before the next call, no engine holds two documents with the same
\* _id.
C2_UniqueIds ==
    \A k \in DOMAIN colls :
        LET docs == colls[k]._engine.docs IN
        \A i, j \in DOMAIN docs : i # j => docs[i]._id # docs[j]._id

\* C2's case: the Collection holds two documents and the last call, which
\* supplied the _id of one of them, was rejected.
C2_Witness ==
    \E s \in DOMAIN calls :
        /\ calls[s].status = "rejected"
        /\ Len(Stored(s)) = 2
        /\ calls[s].err.msg \in {MsgE11000, MsgAlreadyContains}
        /\ \E i \in DOMAIN Stored(s) : Stored(s)[i]._id = calls[s].err.id

\* C5 (insertOne duplicate rejection): an insertOne() of a document whose
\* _id a stored document has, on a connected client, is never resolved,
\* leaves the stored documents as they were, and is rejected with the
\* duplicate-key error naming the collection and the _id.
C5_InsertOneDuplicate ==
    \A s \in DOMAIN calls :
        (/\ Admitted(s, "insertOne")
         /\ calls[s].arg._id # ""
         /\ \E i \in DOMAIN calls[s].pre : calls[s].pre[i]._id = calls[s].arg._id)
            => /\ Stored(s) = calls[s].pre
               /\ calls[s].status \in {"pending", "rejected"}
               /\ calls[s].status = "pending" => calls[s].pc = "count"
               /\ calls[s].status = "rejected" =>
                    calls[s].err = Err("insertOne()", MsgE11000,
                        colls[calls[s].coll]._collectionName,
                        calls[s].arg._id, -1, -1)

\* C5's case: insertOne() of a document with a stored _id and another
\* payload was rejected with the duplicate-key error.
C5_Witness ==
    \E s \in DOMAIN calls :
        /\ Admitted(s, "insertOne")
        /\ calls[s].status = "rejected" /\ calls[s].err.msg = MsgE11000
        /\ \E i \in DOMAIN Stored(s) :
            /\ Stored(s)[i]._id = calls[s].arg._id
            /\ Stored(s)[i].x # calls[s].arg.x

\* Two documents of items carry the same _id.
HasRepeat(items) ==
    \E i, j \in DOMAIN items :
        i < j /\ items[i]._id # "" /\ items[i]._id = items[j]._id

\* The position in items (from 1) of the first document that repeats the
\* _id of an earlier one, and the position of that earlier one.
FirstRepeat(items) ==
    CHOOSE i \in DOMAIN items :
        /\ HasRepeat(SubSeq(items, 1, i))
        /\ ~HasRepeat(SubSeq(items, 1, i - 1))
Repeated(items) ==
    CHOOSE j \in 1..(FirstRepeat(items) - 1) :
        items[j]._id = items[FirstRepeat(items)]._id

\* C6 (intra-batch duplicate positions): when two documents of the array
\* carry the same _id, insertMany() fails with an error that names the
\* position in the array of the first document that repeats an _id and the
\* position in the array of the earlier document with that _id, from 0.
C6_IntraBatchPositions ==
    \A s \in DOMAIN calls :
        (Admitted(s, "insertMany") /\ HasRepeat(calls[s].arg.items))
            => /\ calls[s].status = "rejected"
               /\ calls[s].err.msg = MsgSameId
               /\ calls[s].err.i = FirstRepeat(calls[s].arg.items) - 1
               /\ calls[s].err.j = Repeated(calls[s].arg.items) - 1

\* C7 (insertMany check ordering): an insertMany() whose array repeats an
\* _id is rejected with the intra-batch error at the call, without being
\* suspended on the engine and with no answer of the engine, also when an
\* _id of the array is stored already.
C7_IntraBatchFirst ==
    \A s \in DOMAIN calls :
        (Admitted(s, "insertMany") /\ HasRepeat(calls[s].arg.items))
            => /\ calls[s].status = "rejected"
               /\ calls[s].err.msg = MsgSameId
               /\ calls[s].pc = "" /\ calls[s].dupes = {}

\* C7's case: the rejected array repeats an _id and a stored document has an
\* _id of the array.
C7_Witness ==
    \E s \in DOMAIN calls :
        /\ Admitted(s, "insertMany") /\ HasRepeat(calls[s].arg.items)
        /\ calls[s].status = "rejected"
        /\ \E i \in DOMAIN calls[s].pre, j \in DOMAIN calls[s].arg.items :
                calls[s].pre[i]._id = calls[s].arg.items[j]._id

\* C8 (no partial success): when insertOne() or insertMany() is rejected,
\* the Collection holds exactly the documents it held at the call.
C8_NoPartialSuccess ==
    \A s \in DOMAIN calls :
        calls[s].status = "rejected" => Stored(s) = calls[s].pre

\* C8's case: an insertMany() of two documents, one with a stored _id and
\* one with an _id that is not stored, was rejected.
C8_Witness ==
    \E s \in DOMAIN calls :
        /\ Admitted(s, "insertMany") /\ calls[s].status = "rejected"
        /\ calls[s].err.msg = MsgAlreadyContains
        /\ \E j \in DOMAIN calls[s].arg.items :
            /\ calls[s].arg.items[j]._id # ""
            /\ \A i \in DOMAIN calls[s].pre :
                    calls[s].pre[i]._id # calls[s].arg.items[j]._id

TokenSet == {Tokens[i] : i \in DOMAIN Tokens}

\* C9 (insertMany result): a resolved insertMany() of n documents returns
\* acknowledged true, insertedCount n and insertedIds with the keys 0..n-1
\* (here 1..n), the supplied _id where one was supplied and a token of the
\* engine otherwise; and the n documents are stored, after those held at the
\* call.
C9_InsertManyResult ==
    \A s \in DOMAIN calls :
        (calls[s].op = "insertMany" /\ calls[s].status = "resolved") =>
            LET items == calls[s].arg.items
                n == Len(items)
                val == calls[s].val
            IN
            /\ val.acknowledged = TRUE
            /\ val.insertedCount = n
            /\ DOMAIN val.insertedIds = 1..n
            /\ \A i \in 1..n :
                IF items[i]._id # ""
                THEN val.insertedIds[i] = items[i]._id
                ELSE val.insertedIds[i] \in TokenSet
            /\ Stored(s) = calls[s].pre \o
                [i \in 1..n |-> Doc(val.insertedIds[i], items[i].x)]

\* C9's case: a resolved insertMany() of a document with an _id and one
\* without.
C9_Witness ==
    \E s \in DOMAIN calls :
        /\ calls[s].op = "insertMany" /\ calls[s].status = "resolved"
        /\ Len(calls[s].arg.items) = 2
        /\ \E i, j \in DOMAIN calls[s].arg.items :
            calls[s].arg.items[i]._id # "" /\ calls[s].arg.items[j]._id = ""

\* What collection() first returned for name on Database d since the last
\* dropDatabase(): the set of its (kind, val), empty when there is none.
FirstReturned(d, name) ==
    {<<returned[d][i].kind, returned[d][i].val>> :
        i \in {i \in DOMAIN returned[d] : returned[d][i].name = name}}

\* C4 (collection identity): on one Database, a successful collection(name)
\* returns the object that the first successful call for that name since the
\* last dropDatabase() returned; for different names it has returned
\* different objects; and two different Databases of the same name have
\* returned different objects for the same collection name.
C4_CollectionIdentity ==
    /\ (ret.op = "collection" /\ ret.err = NoError)
        => FirstReturned(ret.on, ret.arg.s) = {<<ret.kind, ret.val>>}
    /\ \A d \in DOMAIN returned : \A i, j \in DOMAIN returned[d] :
        i # j => <<returned[d][i].kind, returned[d][i].val>>
                    # <<returned[d][j].kind, returned[d][j].val>>
    /\ \A d, e \in DOMAIN returned :
        (d # e /\ dbs[d].name = dbs[e].name) =>
            \A i \in DOMAIN returned[d] :
                FirstReturned(d, returned[d][i].name)
                    \cap FirstReturned(e, returned[d][i].name) = {}

\* The promise in slot p is that of a connect() call which awaits.
PendingConnect(p) ==
    promises[p].fn = "connect" /\ promises[p].status = "pending"

\* C10 (connect() is asynchronous and completes): the step in which connect()
\* is called on an engine-bound client leaves _isConnected as it was; a step
\* that sets _isConnected of a client to true is the setImmediate() callback
\* of a connect() call made on that client in an earlier step; the step that
\* resolves the promise of a connect() call leaves _isConnected of its client
\* true; and every connect() call that awaits is eventually resolved.
C10_ConnectAsync ==
    /\ [][/\ (\E p \in DOMAIN promises : ~PendingConnect(p) /\ PendingConnect(p)')
                => _isConnected' = _isConnected
          /\ \A c \in Clients :
                (~_isConnected[c] /\ _isConnected'[c]) =>
                    /\ immediates # <<>>
                    /\ PendingConnect(Head(immediates))
                    /\ promises[Head(immediates)].client = c
                    /\ promises'[Head(immediates)].status = "resolved"
          /\ \A p \in DOMAIN promises :
                (PendingConnect(p) /\ promises'[p].status = "resolved")
                    => _isConnected'[promises[p].client]]_vars
    /\ \A p \in ClientPromiseSlots :
        PendingConnect(p) ~>
            (promises[p].fn = "connect" /\ promises[p].status = "resolved")

\* C10's case: a connect() call made while the client was not connected has
\* resolved, and the client is connected.
C10_Witness ==
    \E p \in DOMAIN promises :
        /\ promises[p].fn = "connect" /\ promises[p].status = "resolved"
        /\ ~promises[p].connected
        /\ _isConnected[promises[p].client]

\* The promise in slot p is that of a close() call which awaits.
PendingClose(p) ==
    promises[p].fn = "close" /\ promises[p].status = "pending"

\* C11 (close() disconnects immediately): the step in which close() is
\* called on an engine-bound client leaves _isConnected false and the promise
\* of the call pending; while _isConnected is false, db() with a valid name
\* fails with the not-connected error, so it does when called right after
\* close(); the promise of close() is resolved by a setImmediate() callback,
\* a later step; and every close() call that awaits is eventually resolved.
C11_CloseImmediate ==
    /\ [][/\ \A p \in DOMAIN promises :
                (~PendingClose(p) /\ PendingClose(p)') =>
                    ~_isConnected'[promises'[p].client]
          /\ \A p \in DOMAIN promises :
                (promises'[p] # promises[p] /\ promises'[p].fn = "close"
                    /\ promises'[p].status = "resolved") =>
                        /\ PendingClose(p)
                        /\ immediates # <<>> /\ Head(immediates) = p
          /\ \A c \in Clients :
                (/\ ~_isConnected[c] /\ Bound(c)
                 /\ ret' # ret /\ ret'.op = "db" /\ ret'.on = c
                 /\ ValidName(ret'.arg))
                    => ret'.err = NotConnectedError("db")]_vars
    /\ \A p \in ClientPromiseSlots :
        PendingClose(p) ~>
            (promises[p].fn = "close" /\ promises[p].status = "resolved")

\* C11's case: close() was called on a connected client and has not
\* resolved, and db() with a valid name has just failed with the
\* not-connected error.
C11_Witness ==
    /\ \E p \in DOMAIN promises : PendingClose(p) /\ promises[p].connected
    /\ ret.op = "db" /\ ValidName(ret.arg)
    /\ ret.err = NotConnectedError("db")

\* C12 (closed stays closed): when a close() call resolves and no connect()
\* has been called since that close() was called, _isConnected of the client
\* is false, so that db() and the operations of its Collections fail with
\* the not-connected error.  The setImmediate() callbacks run in the order of
\* the calls, so a connect() called after that close() is still pending when
\* the close() resolves, and one called before is not.
C12_ClosedStaysClosed ==
    [][\A p \in DOMAIN promises :
        (/\ PendingClose(p) /\ promises'[p].status = "resolved"
         /\ \A q \in DOMAIN promises :
                ~(PendingConnect(q)' /\ promises'[q].client = promises[p].client))
            => ~_isConnected'[promises[p].client]]_vars

\* The Error of connect(), close() and db() on a client without engine.
NoEngineError(fn) ==
    Error(CASE fn = "connect" -> "connect()"
            [] fn = "close" -> "close()"
            [] OTHER -> "db()", MsgNoEngine)

\* C13 (unbound client gating): while no injectEngine() has succeeded on a
\* client (its _Engine is the NoopEngine), every connect() and close() called
\* on it was rejected with the no-engine error, none awaits a setImmediate()
\* callback, db() fails with that error whatever its argument, and
\* _isConnected is false.
C13_UnboundGating ==
    \A c \in Clients :
        _Engine[c] = NoopEngine =>
            /\ ~_isConnected[c]
            /\ \A p \in DOMAIN promises :
                promises[p].client = c =>
                    /\ promises[p].status = "rejected"
                    /\ promises[p].err = NoEngineError(promises[p].fn)
                    /\ \A i \in DOMAIN immediates : immediates[i] # p
            /\ (ret.op = "db" /\ ret.on = c) => ret.err = NoEngineError("db")

\* C13's case: on a client without engine, connect() was rejected and db()
\* with a valid name has just failed.
C13_Witness ==
    /\ _Engine[1] = NoopEngine
    /\ \E p \in DOMAIN promises :
        /\ promises[p].fn = "connect" /\ promises[p].status = "rejected"
        /\ promises[p].client = 1
    /\ ret.op = "db" /\ ValidName(ret.arg) /\ ret.err = NoEngineError("db")

\* This step is an injectEngine() call on the client of the last synchronous
\* call, which was an injectEngine() call too.
SecondInjectEngine ==
    /\ ret.op = "injectEngine"
    /\ ret' # ret /\ ret'.op = "injectEngine" /\ ret'.on = ret.on

\* An argument of injectEngine() that is no function, or has no NAME or no
\* VERSION.
Rejectable(E) == ~E.fn \/ E.NAME = "" \/ E.VERSION = ""

\* C14 as stated (second bind always fails): of two injectEngine() calls
\* made one after the other on a client, the second fails.
C14_SecondBindFails ==
    [][SecondInjectEngine => ret'.err # NoError]_vars

\* C14 amended: of two injectEngine() calls made one after the other on a
\* client, the second fails with the already-injected error when the first
\* succeeded or failed with that error; when the first was rejected for its
\* argument, the second fails if its own argument is rejected too, and
\* succeeds and binds its engine if its argument is a valid engine.
C14_SecondBind ==
    [][SecondInjectEngine =>
        /\ ret.err \in {NoError, Error("injectEngine()", MsgAlreadyInjected)}
            => /\ ret'.err = Error("injectEngine()", MsgAlreadyInjected)
               /\ _Engine' = _Engine
        /\ (ret.err = Error("injectEngine()", MsgInvalid) /\ Rejectable(ret'.arg))
            => /\ ret'.err = Error("injectEngine()", MsgInvalid)
               /\ _Engine' = _Engine
        /\ (ret.err = Error("injectEngine()", MsgInvalid) /\ ~Rejectable(ret'.arg))
            => /\ ret'.err = NoError
               /\ _Engine'[ret'.on] = ret'.arg]_vars

\* C14's case: injectEngine() of a valid engine has just succeeded and bound
\* it.
C14_Witness ==
    /\ ret.op = "injectEngine" /\ ret.err = NoError
    /\ ~Rejectable(ret.arg) /\ _Engine[ret.on] = ret.arg

\* C15 as stated (nothing succeeds while disconnected): no connect(),
\* close(), db(), collection(), dropDatabase(), listCollections(),
\* insertOne(), insertMany() or find() called while _isConnected was false
\* has succeeded.
C15_NothingSucceedsDisconnected ==
    /\ (/\ ret.op \in {"db", "collection", "dropDatabase", "listCollections",
                       "find"}
        /\ ~ret.connected)
            => ret.err # NoError
    /\ \A p \in DOMAIN promises :
        (promises[p].fn \in {"connect", "close"} /\ ~promises[p].connected)
            => promises[p].status # "resolved"
    /\ \A s \in DOMAIN calls :
        (calls[s].op \in {"insertOne", "insertMany"} /\ ~calls[s].connected)
            => calls[s].status # "resolved"

\* C15 amended: db(), collection() and find() called while _isConnected was
\* false have thrown, and insertOne() and insertMany() called then were
\* rejected at the call; dropDatabase() and listCollections() succeed
\* whatever _isConnected is, and connect() and close() are rejected only for
\* the missing engine.
C15_GatedOperations ==
    /\ (ret.op \in {"db", "collection", "find"} /\ ~ret.connected)
            => ret.err # NoError
    /\ \A s \in DOMAIN calls :
        (calls[s].op \in {"insertOne", "insertMany"} /\ ~calls[s].connected)
            => calls[s].status = "rejected" /\ calls[s].pc = ""
    /\ ret.op \in {"dropDatabase", "listCollections"} => ret.err = NoError
    /\ \A p \in DOMAIN promises :
        (promises[p].fn \in {"connect", "close"}
            /\ promises[p].status = "rejected")
            => promises[p].err = NoEngineError(promises[p].fn)

\* C15's case: on a disconnected client an insert with a valid argument was
\* rejected, a close() called then has resolved, and dropDatabase() has just
\* succeeded.
C15_Witness ==
    /\ ret.op = "dropDatabase" /\ ~ret.connected /\ ret.err = NoError
    /\ \E p \in DOMAIN promises :
        /\ promises[p].fn = "close" /\ ~promises[p].connected
        /\ promises[p].status = "resolved"
    /\ \E s \in DOMAIN calls :
        /\ ~calls[s].connected /\ ValidArg(calls[s].op, calls[s].arg)
        /\ calls[s].status = "rejected"

\* insertOne() or insertMany() with a valid argument on a connected client,
\* run from the call to the settling of its promise with no other call in
\* between, on an engine in state e: the engine after it, how the promise
\* settled and the text of its Error.
RunAlone(e, op, arg) ==
    IF op = "insertOne"
    THEN IF arg._id # "" /\ EngineCount(e, arg._id) # 0
         THEN [e |-> e, status |-> "rejected", msg |-> MsgE11000]
         ELSE [e |-> EngineInsert(e, <<arg>>), status |-> "resolved", msg |-> ""]
    ELSE LET docsWithIds == DocsWithIds(arg.items)
             ids == {docsWithIds[i]._id : i \in DOMAIN docsWithIds}
         IN
         IF IntraBatchError(arg.items) # NoError
         THEN [e |-> e, status |-> "rejected", msg |-> MsgSameId]
         ELSE IF EngineFindIn(e, ids) # {}
         THEN [e |-> e, status |-> "rejected", msg |-> MsgAlreadyContains]
         ELSE [e |-> EngineInsert(e, arg.items), status |-> "resolved", msg |-> ""]

\* The documents of a sequence and how often each occurs, whatever their
\* order.
Occurrences(docs) ==
    [d \in {docs[i] : i \in DOMAIN docs} |->
        Cardinality({i \in DOMAIN docs : docs[i] = d})]

\* The _ids that a call supplies.
SuppliedIds(s) ==
    IF calls[s].op = "insertOne" THEN {calls[s].arg._id} \ {""}
    ELSE {calls[s].arg.items[i]._id : i \in DOMAIN calls[s].arg.items} \ {""}

\* Two calls with valid arguments were made, the second before the first
\* continued, and both promises have settled.
PairSettled ==
    /\ \A s \in PairCallSlots :
        /\ calls[s].status \in {"resolved", "rejected"}
        /\ ValidArg(calls[s].op, calls[s].arg)
    /\ microtasks = <<>>

\* C16 (serialized execution without yielding): when two write calls were
\* made on a Collection one after the other without yielding and both have
\* settled, the stored documents (in whatever order) and the success or
\* failure of each call are those of running the first call to its end and
\* then the second; and of
\* two such calls that supply the same _id one has succeeded and the other
\* has failed with a duplicate-key error.
C16_Serialized ==
    PairSettled =>
        LET first == RunAlone(NewEngine(PicoDB), calls[1].op, calls[1].arg)
            second == RunAlone(first.e, calls[2].op, calls[2].arg)
        IN
        /\ Occurrences(colls[1]._engine.docs) = Occurrences(second.e.docs)
        /\ calls[1].status = first.status /\ calls[1].err.msg = first.msg
        /\ calls[2].status = second.status /\ calls[2].err.msg = second.msg
        /\ (calls[1].status = "resolved"
                /\ SuppliedIds(1) \cap SuppliedIds(2) # {})
            => /\ calls[2].status = "rejected"
               /\ calls[2].err.msg \in {MsgE11000, MsgAlreadyContains, MsgSameId}

\* C17 (dropDatabase always succeeds and clears the cache at once): a
\* dropDatabase() call, whatever _isConnected of the client is, returns a
\* promise resolved to true and leaves _collections of the Database empty in
\* the state it returns in; listCollections() called next on that Database
\* returns the empty array.
C17_DropDatabase ==
    /\ [](ret.op = "dropDatabase" =>
            /\ ret.err = NoError /\ ret.kind = "Promise<true>"
            /\ dbs[ret.on]._collections = <<>>)
    /\ [][(ret.op = "dropDatabase" /\ ret'.op = "listCollections"
            /\ ret'.on = ret.on)
                => ret'.err = NoError /\ ret'.names = <<>>]_vars

\* C17's case: dropDatabase() was called on a Database of a disconnected
\* client after a Collection had been made, and listCollections() has just
\* returned the empty array.
C17_Witness ==
    /\ ret.op = "listCollections" /\ ret.names = <<>> /\ ~ret.connected
    /\ \E k \in DOMAIN colls : TRUE
    /\ dbs[ret.on]._collections = <<>>

\* The names for which collection() has succeeded on Database d since the
\* last dropDatabase(), in the order of the first success.
AccessedNames(d) == [i \in DOMAIN returned[d] |-> returned[d][i].name]

\* C18 (listCollections content and order): listCollections() returns the
\* names for which collection() has succeeded on that Database since the
\* last dropDatabase(), each once, in the order of their first success.
C18_ListCollections ==
    ret.op = "listCollections" =>
        /\ ret.err = NoError
        /\ ret.names = AccessedNames(ret.on)

\* C19 (insertOne success): an insertOne() on a connected client of a
\* document without _id, or with an _id that no stored document has, is not
\* rejected; when it has resolved it has returned acknowledged true and as
\* insertedId the supplied _id, or a token of the engine when none was
\* supplied, the Collection holds the documents it held at the call and then
\* the new one, and the engine finds exactly that document by the
\* insertedId.
C19_InsertOneSuccess ==
    \A s \in DOMAIN calls :
        (/\ Admitted(s, "insertOne")
         /\ \A i \in DOMAIN calls[s].pre :
                calls[s].arg._id = "" \/ calls[s].pre[i]._id # calls[s].arg._id)
            => /\ calls[s].status \in {"pending", "resolved"}
               /\ calls[s].status = "resolved" =>
                    LET id == calls[s].val.insertedId
                        new == Doc(id, calls[s].arg.x)
                    IN
                    /\ calls[s].val.acknowledged = TRUE
                    /\ IF calls[s].arg._id # "" THEN id = calls[s].arg._id
                                               ELSE id \in TokenSet
                    /\ Stored(s) = Append(calls[s].pre, new)
                    /\ EngineFind(colls[calls[s].coll]._engine, Filter(id))
                            = <<new>>

\* C19's case: an insertOne() of a document without _id, into a Collection
\* that held a document, has resolved.
C19_Witness ==
    \E s \in DOMAIN calls :
        /\ Admitted(s, "insertOne") /\ calls[s].status = "resolved"
        /\ calls[s].arg._id = "" /\ Len(calls[s].pre) > 0

\* C20 (error precedence): db() throws the no-engine error on a client
\* without engine, else the validation error for an invalid dbName, else the
\* not-connected error on a disconnected client; collection() and find()
\* throw the validation error for an invalid argument, and insertOne() and
\* insertMany() are rejected with it, also when the client is disconnected.
C20_ErrorPrecedence ==
    /\ ret.op = "db" =>
        ret.err = IF ~Bound(ret.on) THEN Error("db()", MsgNoEngine)
                  ELSE IF ~ValidName(ret.arg) THEN Error("db()", MsgInvalid)
                  ELSE IF ~ret.connected THEN Error("db()", MsgNotConnected)
                  ELSE NoError
    /\ (ret.op \in {"collection", "find"} /\ ~ValidArg(ret.op, ret.arg))
            => ret.err = Error(Begin(ret.op), MsgInvalid)
    /\ \A s \in DOMAIN calls :
        (/\ calls[s].op \in {"insertOne", "insertMany"}
         /\ ~ValidArg(calls[s].op, calls[s].arg))
            => /\ calls[s].status = "rejected"
               /\ calls[s].err = Error(Begin(calls[s].op), MsgInvalid)

\* C20's case: on a disconnected client with an engine, db() with an invalid
\* name has just thrown the validation error and an insert with an invalid
\* argument was rejected with it.
C20_Witness ==
    /\ ret.op = "db" /\ Bound(ret.on) /\ ~ret.connected
    /\ ~ValidName(ret.arg) /\ ret.err = Error("db()", MsgInvalid)
    /\ \E s \in DOMAIN calls :
        /\ calls[s].op \in {"insertOne", "insertMany"} /\ ~calls[s].connected
        /\ ~ValidArg(calls[s].op, calls[s].arg)
        /\ calls[s].err = Error(Begin(calls[s].op), MsgInvalid)

C22_BoundBeforeConnected ==
    \A c \in Clients :
        _isConnected[c] =>
            /\ _Engine[c].fn
            /\ _Engine[c].NAME # ""
            /\ _Engine[c].VERSION # ""

\* C22's case: the client is connected while a close() and a later connect()
\* are pending.
C22_Witness ==
    \E p, q \in DOMAIN promises :
        /\ PendingClose(p) /\ PendingConnect(q)
        /\ promises[p].client = promises[q].client
        /\ _isConnected[promises[p].client]

\* The last synchronous call was an injectEngine() that failed for its
\* argument.
FailedInjectEngine ==
    ret.op = "injectEngine" /\ ret.err = Error("injectEngine()", MsgInvalid)

\* C23 (a failed injectEngine leaves the client unbound): an injectEngine()
\* called on a client without engine with no function, or with one that has
\* no NAME or no VERSION, fails with the validation error and leaves _Engine
\* as it was; after it _Engine is still the NoopEngine, a connect() or
\* close() called next is rejected with the no-engine error, a db() called
\* next throws it, and an injectEngine() called next with a valid engine
\* succeeds and binds it.
C23_FailedInjectUnbound ==
    /\ [](FailedInjectEngine => _Engine[ret.on] = NoopEngine)
    /\ [][/\ \A c \in Clients :
                (/\ ret' # ret /\ ret'.op = "injectEngine" /\ ret'.on = c
                 /\ _Engine[c] = NoopEngine /\ Rejectable(ret'.arg))
                    => /\ ret'.err = Error("injectEngine()", MsgInvalid)
                       /\ _Engine' = _Engine
          /\ FailedInjectEngine =>
                /\ \A p \in DOMAIN promises :
                    (/\ promises'[p] # promises[p]
                     /\ promises'[p].status # "resolved"
                     /\ promises'[p].client = ret.on)
                        => /\ promises'[p].status = "rejected"
                           /\ promises'[p].err = NoEngineError(promises'[p].fn)
                /\ (ret' # ret /\ ret'.op = "db" /\ ret'.on = ret.on)
                        => ret'.err = NoEngineError("db")
                /\ (/\ ret' # ret /\ ret'.op = "injectEngine"
                    /\ ret'.on = ret.on /\ ~Rejectable(ret'.arg))
                        => /\ ret'.err = NoError
                           /\ _Engine'[ret.on] = ret'.arg]_vars

\* C23's case: injectEngine() has failed for its argument, the client has no
\* engine, and a close() was rejected with the no-engine error.
C23_Witness ==
    /\ FailedInjectEngine /\ _Engine[ret.on] = NoopEngine
    /\ \E p \in DOMAIN promises :
        /\ promises[p].fn = "close" /\ promises[p].client = ret.on
        /\ promises[p].status = "rejected"
        /\ promises[p].err = NoEngineError("close")

\* C24 (disconnect does not clear data): the steps of close() and connect(),
\* the calls and their setImmediate() callbacks, leave the collection cache
\* of every Database and the documents of every Collection as they were; a
\* Collection reads _isConnected of its client at each call: find(),
\* insertOne() and insertMany() with valid arguments fail with the
\* not-connected error when called while it is false, and do not when
\* called while it is true, whatever it was when the Collection was made.
C24_DisconnectKeepsData ==
    /\ [][(promises' # promises \/ _isConnected' # _isConnected)
            => (dbs' = dbs /\ colls' = colls)]_vars
    /\ []((ret.op = "find" /\ ValidArg("find", ret.arg)) =>
            IF ret.connected THEN ret.err = NoError /\ ret.kind = "Cursor"
            ELSE ret.err = NotConnectedError("find"))
    /\ [](\A s \in DOMAIN calls :
            (calls[s].op \in {"insertOne", "insertMany"}
                /\ ValidArg(calls[s].op, calls[s].arg)) =>
                IF calls[s].connected
                THEN calls[s].err.msg # MsgNotConnected
                ELSE /\ calls[s].status = "rejected"
                     /\ calls[s].err = NotConnectedError(calls[s].op))

\* C24's case: a Collection that held a document rejected an insert while
\* its client was disconnected; the client is connected again, the
\* Collection holds what it held, and find() has returned a cursor.
C24_Witness ==
    /\ \E s \in DOMAIN calls :
        /\ calls[s].status = "rejected"
        /\ calls[s].err = NotConnectedError(calls[s].op)
        /\ Len(calls[s].pre) > 0
        /\ Stored(s) = calls[s].pre
        /\ _isConnected[colls[calls[s].coll]._client]
    /\ ret.op = "find" /\ ret.connected /\ ret.err = NoError
    /\ \E p \in DOMAIN promises :
        /\ promises[p].fn = "connect" /\ ~promises[p].connected
        /\ promises[p].status = "resolved"

\* C25 (fresh collection after drop): dropDatabase() leaves every Collection
\* as it is; on a Database whose cache has lost a name by dropDatabase()
\* while a Collection of that name, made before, still exists, the next
\* successful collection(name) returns a Collection that did not exist,
\* with a new engine instance holding no document, caches it, and leaves the
\* earlier Collections and their documents as they were; an insertOne() of
\* an _id that the Collection it is called on does not hold is not rejected,
\* whatever Collections of the same name hold, those made before
\* dropDatabase() too.
C25_FreshAfterDrop ==
    /\ [][/\ (ret' # ret /\ ret'.op = "dropDatabase") => colls' = colls
          /\ \A d \in DOMAIN dbs :
                (/\ ret' # ret /\ ret'.op = "collection" /\ ret'.on = d
                 /\ ret'.err = NoError
                 /\ ~HasOwn(dbs[d]._collections, ret'.arg.s)
                 /\ \E k \in DOMAIN colls :
                        colls[k]._collectionName = ret'.arg.s)
                    => /\ ret'.kind = "Collection"
                       /\ ret'.val \notin DOMAIN colls
                       /\ ret'.val \in DOMAIN colls'
                       /\ colls'[ret'.val]._engine.docs = <<>>
                       /\ colls'[ret'.val]._engine.gen = 0
                       /\ \A k \in DOMAIN colls : colls'[k] = colls[k]
                       /\ HasOwn(dbs'[d]._collections, ret'.arg.s)
                       /\ OwnValue(dbs'[d]._collections, ret'.arg.s) = ret'.val
         ]_vars
    /\ [](\A s \in DOMAIN calls :
            (/\ Admitted(s, "insertOne")
             /\ \A i \in DOMAIN calls[s].pre :
                    calls[s].pre[i]._id # calls[s].arg._id)
                => calls[s].status # "rejected")

\* C25's case: a Collection made after dropDatabase() has stored the _id
\* that the Collection of the same name made before holds, and the earlier
\* Collection still holds its document.
C25_Witness ==
    \E s \in DOMAIN calls, k \in DOMAIN colls :
        /\ Admitted(s, "insertOne") /\ calls[s].status = "resolved"
        /\ calls[s].coll # k /\ calls[s].coll > k
        /\ colls[k]._collectionName = colls[calls[s].coll]._collectionName
        /\ \E i \in DOMAIN colls[k]._engine.docs :
                colls[k]._engine.docs[i]._id = calls[s].arg._id
        /\ \E d \in DOMAIN dbs :
            /\ HasOwn(dbs[d]._collections, colls[k]._collectionName)
            /\ OwnValue(dbs[d]._collections, colls[k]._collectionName)
                    = calls[s].coll

C27_LazyEngineFailure ==
    /\ [][/\ \A c \in Clients :
                (/\ ret' # ret /\ ret'.op = "injectEngine" /\ ret'.on = c
                 /\ _Engine[c] = NoopEngine
                 /\ ret'.arg.fn /\ ret'.arg.NAME # "" /\ ret'.arg.VERSION # "")
                    => ret'.err = NoError /\ _Engine'[c] = ret'.arg
          /\ \A p \in DOMAIN promises :
                (/\ promises'[p] # promises[p]
                 /\ promises'[p].status # "resolved"
                 /\ Bound(promises'[p].client))
                    => promises'[p].status = "pending"
          /\ \A c \in Clients :
                (/\ ret' # ret /\ ret'.op = "db" /\ ret'.on = c
                 /\ Bound(c) /\ _isConnected[c] /\ ValidName(ret'.arg))
                    => ret'.err = NoError /\ ret'.kind = "Database"
          /\ \A d \in DOMAIN dbs :
                (/\ ret' # ret /\ ret'.op = "collection" /\ ret'.on = d
                 /\ _isConnected[dbs[d]._client] /\ ValidName(ret'.arg))
                    => /\ ret'.err = NoError
                       /\ ret'.kind = "Collection" =>
                            /\ HasOwn(dbs'[d]._collections, ret'.arg.s)
                            /\ OwnValue(dbs'[d]._collections, ret'.arg.s)
                                    = ret'.val
                            /\ colls'[ret'.val]._engine.methods
                                    = _Engine[dbs[d]._client].methods]_vars
    /\ [](ret.err.msg = MsgNotAFunction => ret.op = "find")
    /\ [](\A p \in DOMAIN promises : promises[p].err.msg # MsgNotAFunction)
    /\ []((/\ ret.op = "find" /\ ValidArg("find", ret.arg) /\ ret.connected
           /\ ~colls[ret.on]._engine.methods)
                => ret.err = Error("find()", MsgNotAFunction))
    /\ [](\A s \in DOMAIN calls :
            (/\ calls[s].op \in {"insertOne", "insertMany"}
             /\ Admitted(s, calls[s].op)
             /\ ~colls[calls[s].coll]._engine.methods
             /\ calls[s].op = "insertMany" => ~HasRepeat(calls[s].arg.items))
                => /\ calls[s].status = "rejected"
                   /\ calls[s].err = Error(Begin(calls[s].op), MsgNotAFunction)
                   /\ Stored(s) = <<>>)

\* C27's case: the client is bound to the MockEngine, whose instances have
\* no methods, and connected; a Collection is cached; an insert was rejected
\* and find() has just thrown for the missing method.
C27_Witness ==
    /\ _Engine[1] = MockEngine /\ _isConnected[1]
    /\ \E d \in DOMAIN dbs : HasOwn(dbs[d]._collections, Name_coll_1)
    /\ ret.op = "find" /\ ret.err = Error("find()", MsgNotAFunction)
    /\ \E s \in DOMAIN calls :
        /\ calls[s].status = "rejected"
        /\ calls[s].err.msg = MsgNotAFunction

\* The _ids of the documents the Collection held when the call was made.
StoredIdsAtCall(s) == {calls[s].pre[i]._id : i \in DOMAIN calls[s].pre}

\* C28 (cross-batch duplicate report): an insertMany() on a connected
\* client, of an array in which no _id is repeated and of which a supplied
\* _id was stored at the call, is suspended on the engine's find() and then
\* rejected, never resolved, with the error that names the collection and an
\* _id which is both supplied in the array and stored; which of several, the
\* engine decides.
C28_CrossBatchReport ==
    \A s \in DOMAIN calls :
        (/\ Admitted(s, "insertMany")
         /\ ~HasRepeat(calls[s].arg.items)
         /\ SuppliedIds(s) \cap StoredIdsAtCall(s) # {})
            => /\ calls[s].status \in {"pending", "rejected"}
               /\ calls[s].status = "pending" => calls[s].pc = "find"
               /\ calls[s].status = "rejected" =>
                    /\ calls[s].err.begin = "insertMany()"
                    /\ calls[s].err.msg = MsgAlreadyContains
                    /\ calls[s].err.name = colls[calls[s].coll]._collectionName
                    /\ calls[s].err.id \in SuppliedIds(s) \cap StoredIdsAtCall(s)

\* C28's case: of two supplied _ids that were stored, the error names the
\* one that comes later in the array.
C28_Witness ==
    \E s \in DOMAIN calls :
        /\ Admitted(s, "insertMany") /\ calls[s].status = "rejected"
        /\ calls[s].err.msg = MsgAlreadyContains
        /\ \E i, j \in DOMAIN calls[s].arg.items :
            /\ i < j
            /\ calls[s].arg.items[i]._id \in StoredIdsAtCall(s)
            /\ calls[s].arg.items[j]._id = calls[s].err.id

\* C29 (the intra-batch check has no false positives): an insertMany() on a
\* connected client is rejected with the intra-batch error only if two
\* documents of the array carry the same _id, whatever strings the _ids are;
\* and an array in which no _id is repeated and of which no _id is stored is
\* not rejected, and when the call has resolved the Collection holds the
\* documents it held at the call and then every document of the array.
C29_NoFalsePositives ==
    \A s \in DOMAIN calls :
        Admitted(s, "insertMany") =>
            /\ calls[s].err.msg = MsgSameId => HasRepeat(calls[s].arg.items)
            /\ (/\ ~HasRepeat(calls[s].arg.items)
                /\ SuppliedIds(s) \cap StoredIdsAtCall(s) = {})
                    => /\ calls[s].status # "rejected"
                       /\ calls[s].status = "resolved" =>
                            /\ Len(Stored(s)) = Len(calls[s].pre)
                                    + Len(calls[s].arg.items)
                            /\ \A i \in DOMAIN calls[s].arg.items :
                                LET d == Stored(s)[Len(calls[s].pre) + i] IN
                                /\ d.x = calls[s].arg.items[i].x
                                /\ calls[s].arg.items[i]._id # ""
                                    => d._id = calls[s].arg.items[i]._id

\* The number of documents a call is to store.
ToStore(s) ==
    IF calls[s].op = "insertOne" THEN 1 ELSE Len(calls[s].arg.items)

\* C30 (the connection is checked once, at call entry): no insertOne() or
\* insertMany() called while _isConnected was true fails with the
\* not-connected error; once such a call is suspended on the engine, its
\* continuations do what they do whatever _isConnected is then, also after
\* a close() call: after a duplicate query that found nothing the documents
\* are stored, and after the insert the promise is resolved with
\* acknowledged true.
C30_CheckedAtEntry ==
    /\ [](\A s \in DOMAIN calls :
            (calls[s].op \in {"insertOne", "insertMany"} /\ calls[s].connected)
                => calls[s].err.msg # MsgNotConnected)
    /\ [][\A s \in DOMAIN calls :
            (calls[s].status = "pending" /\ calls'[s] # calls[s]) =>
                LET k == calls[s].coll IN
                /\ (\/ calls[s].pc = "count" /\ calls[s].n = 0
                    \/ calls[s].pc = "find" /\ calls[s].dupes = {})
                        => /\ calls'[s].status = "pending"
                           /\ calls'[s].pc = "insert"
                           /\ Len(colls'[k]._engine.docs)
                                = Len(colls[k]._engine.docs) + ToStore(s)
                /\ calls[s].pc = "insert"
                        => /\ calls'[s].status = "resolved"
                           /\ calls'[s].val.acknowledged = TRUE
                           /\ colls' = colls]_vars

\* C30's case: an insert called on a connected client has stored its
\* document and resolved while _isConnected was false: the close() called
\* meanwhile is still pending.
C30_Witness ==
    \E s \in DOMAIN calls, p \in DOMAIN promises :
        /\ calls[s].op \in {"insertOne", "insertMany"} /\ calls[s].connected
        /\ calls[s].status = "resolved" /\ calls[s].val.acknowledged = TRUE
        /\ Len(Stored(s)) > Len(calls[s].pre)
        /\ PendingClose(p) /\ promises[p].connected
        /\ promises[p].client = colls[calls[s].coll]._client
        /\ ~_isConnected[promises[p].client]

\* C31 (cursor draining is not gated): find() with a valid filter returns a
\* cursor when _isConnected is true at the call and throws the
\* not-connected error when it is false; draining the cursor that find()
\* returned throws no error and yields the documents of the Collection's
\* engine that match the filter, in the order they are stored in, whatever
\* _isConnected is when it is drained, so also after close() was called.
C31_CursorNotGated ==
    /\ []((ret.op = "find" /\ ValidArg("find", ret.arg)) =>
            IF ret.connected THEN ret.err = NoError /\ ret.kind = "Cursor"
            ELSE ret.err = NotConnectedError("find") /\ ret.kind # "Cursor")
    /\ [](ret.kind = "Cursor" => ret.op = "find" /\ ret.connected)
    /\ [][(ret' # ret /\ ret'.op = "toArray") =>
            /\ ret.kind = "Cursor"
            /\ ret'.on = ret.on /\ ret'.arg = ret.arg
            /\ ret'.err = NoError
            /\ ret'.docs = SelectSeq(colls[ret.on]._engine.docs,
                    LAMBDA d : ret.arg._id = "" \/ d._id = ret.arg._id)
            /\ colls' = colls]_vars

\* C31's case: a cursor was drained while _isConnected was false, after
\* close() was called, and yielded a document.
C31_Witness ==
    /\ ret.op = "toArray" /\ ~ret.connected /\ ret.err = NoError
    /\ Len(ret.docs) > 0
    /\ ret.docs = EngineFind(colls[ret.on]._engine, ret.arg)
    /\ \E p \in DOMAIN promises : promises[p].fn = "close" /\ promises[p].connected

\* C32 (collection isolation): the step that makes a Collection gives it an
\* engine instance that holds no document and leaves every existing
\* Collection as it was; a step changes the documents of at most one
\* Collection, the one on which the call that inserts was made, and changes
\* nothing else of it; and an insertOne() or insertMany() is rejected for a
\* duplicate only if the Collection it was called on held the _id at the
\* call, whatever the other Collections hold.
C32_CollectionIsolation ==
    /\ [][/\ Len(colls') # Len(colls) =>
                /\ Len(colls') = Len(colls) + 1
                /\ colls'[Len(colls')]._engine.docs = <<>>
                /\ colls'[Len(colls')]._engine.gen = 0
                /\ \A k \in DOMAIN colls : colls'[k] = colls[k]
          /\ \A k \in DOMAIN colls :
                colls'[k] # colls[k] =>
                    /\ \A j \in DOMAIN colls : j # k => colls'[j] = colls[j]
                    /\ colls'[k]._client = colls[k]._client
                    /\ colls'[k]._collectionName = colls[k]._collectionName
                    /\ colls'[k]._engine.methods = colls[k]._engine.methods
                    /\ \E s \in DOMAIN calls :
                        /\ calls[s].status = "pending" /\ calls[s].coll = k
                        /\ calls'[s].pc = "insert"]_vars
    /\ [](\A s \in DOMAIN calls :
            (calls[s].status = "rejected"
                /\ calls[s].err.msg \in {MsgE11000, MsgAlreadyContains})
                => calls[s].err.id \in StoredIdsAtCall(s))

\* C32's case: two Collections of the same Database, and a Collection of
\* another Database, each hold a document with the same _id.
C32_Witness ==
    \E d, e \in DOMAIN dbs :
        /\ d # e
        /\ HasOwn(dbs[d]._collections, Name_coll_1)
        /\ HasOwn(dbs[d]._collections, Name_coll_2)
        /\ HasOwn(dbs[e]._collections, Name_coll_1)
        /\ \A k \in {OwnValue(dbs[d]._collections, Name_coll_1),
                     OwnValue(dbs[d]._collections, Name_coll_2),
                     OwnValue(dbs[e]._collections, Name_coll_1)} :
                /\ Len(colls[k]._engine.docs) = 1
                /\ colls[k]._engine.docs[1]._id = "a"

\* C33 (a failed collection() does not touch the cache): collection()
\* throws for an invalid name, on a disconnected client, and when the
\* constructor of the engine throws while the Collection is made; a
\* collection() call that throws leaves _collections of every Database and
\* every Collection as they were; and listCollections() returns the keys of
\* _collections and changes nothing, so it returns after a failed
\* collection() what it returned before.
C33_FailedCollection ==
    /\ []((ret.op = "collection" /\ ~ValidName(ret.arg))
            => ret.err = Error("collection()", MsgInvalid))
    /\ []((ret.op = "collection" /\ ValidName(ret.arg) /\ ~ret.connected)
            => ret.err = NotConnectedError("collection"))
    /\ [][/\ \A d \in DOMAIN dbs :
                (/\ ret' # ret /\ ret'.op = "collection" /\ ret'.on = d
                 /\ ValidName(ret'.arg) /\ _isConnected[dbs[d]._client]
                 /\ ~HasOwn(dbs[d]._collections, ret'.arg.s)
                 /\ _Engine[dbs[d]._client].throws)
                    => ret'.err = Error("", MsgConstructorThrew)
          /\ (ret' # ret /\ ret'.op = "collection" /\ ret'.err # NoError)
                => /\ dbs' = dbs /\ colls' = colls
                   /\ ObjectKeys(dbs'[ret'.on]._collections)
                        = ObjectKeys(dbs[ret'.on]._collections)
          /\ (ret' # ret /\ ret'.op = "listCollections")
                => /\ dbs' = dbs
                   /\ ret'.names = ObjectKeys(dbs[ret'.on]._collections)]_vars

\* C33's case: on a Database that caches a Collection, collection() with
\* another valid name has thrown for the missing connection, and the cache
\* holds the one name.
C33_Witness ==
    /\ ret.op = "collection" /\ ValidName(ret.arg)
    /\ ret.err = NotConnectedError("collection")
    /\ ObjectKeys(dbs[ret.on]._collections) = <<Name_coll_1>>
    /\ ret.arg.s = Name_coll_2

\* C34 (clients do not share binding or connection state): a client is
\* constructed with the NoopEngine and disconnected, whatever the clients
\* that exist are bound to, and its construction leaves them as they were;
\* an injectEngine() call on a client leaves _Engine of every other client
\* and _isConnected of all as they were, and succeeds for a valid engine on
\* a client without engine whatever the others are bound to; and a step of
\* connect() or close() on a client, the call or its setImmediate()
\* callback, leaves _isConnected of every other client and _Engine of all
\* as they were.
C34_ClientsIndependent ==
    [][/\ Len(_Engine') # Len(_Engine) =>
            /\ Len(_Engine') = Len(_Engine) + 1
            /\ Len(_isConnected') = Len(_Engine')
            /\ _Engine'[Len(_Engine')] = NoopEngine
            /\ ~_isConnected'[Len(_Engine')]
            /\ \A c \in DOMAIN _Engine :
                _Engine'[c] = _Engine[c] /\ _isConnected'[c] = _isConnected[c]
       /\ \A c \in DOMAIN _Engine :
            (ret' # ret /\ ret'.op = "injectEngine" /\ ret'.on = c) =>
                /\ _isConnected' = _isConnected
                /\ \A c2 \in DOMAIN _Engine :
                    c2 # c => _Engine'[c2] = _Engine[c2]
                /\ (_Engine[c] = NoopEngine /\ ~Rejectable(ret'.arg))
                    => ret'.err = NoError /\ _Engine'[c] = ret'.arg
       /\ \A p \in DOMAIN promises :
            promises'[p] # promises[p] =>
                /\ _Engine' = _Engine
                /\ \A c2 \in DOMAIN _Engine :
                    c2 # promises'[p].client
                        => _isConnected'[c2] = _isConnected[c2]]_vars

\* C34's case: two clients are bound to different engines; the first is
\* connected, the second, bound after the first, is not, and its close()
\* was called while the first stayed connected.
C34_Witness ==
    /\ Len(_Engine) = 2
    /\ _Engine[1] = PicoDB /\ _Engine[2] = SecondEngine
    /\ _isConnected[1] /\ ~_isConnected[2]
    /\ ret.op = "injectEngine" /\ ret.on = 2 /\ ret.err = NoError
    /\ \E p \in DOMAIN promises :
        /\ promises[p].fn = "close" /\ promises[p].client = 2
        /\ promises[p].connected

====
